---- MODULE Spec2Model ----
(***************************************************************************)
(* ScriptBench: the task orchestrator (benchmark.py), the per-task         *)
(* environment manager (environment.py) and the process executors          *)
(* (execution/unix.py, execution/windows.py), the agent loop                *)
(* (mini_swe_agent/agents), the inference backends (inference/) and the     *)
(* evaluators (evaluator.py, evaluation/), as state machines.               *)
(*                                                                         *)
(* Spec      the orchestrator: run_benchmark looping over run_single_task   *)
(* SpecExec  one call of ScriptExecutor.execute, in 100 ms poll ticks       *)
(* SpecAgent one call of DefaultAgent.run / IterativeAgent.run              *)
(* SpecAgentFair  SpecAgent, the loop of run always taking its next step    *)
(* SpecLoad  one call of MiniSWEInferenceManager._load_script_content       *)
(* SpecRetry one call of OpenAIInferenceManager._prompt_for_solution        *)
(* SpecEval  one call of Evaluator.evaluate_result                          *)
(* SpecInstall  one call of ScriptBenchmark._install_packages               *)
(* SpecInstallFair  SpecInstall, the call always taking its next step       *)
(* SpecCleanup  one call of EnvironmentManager.cleanup_processes            *)
(* SpecTrack  the commands of one agent run and CommandTracker              *)
(* SpecExtract  one call of CodeExtractor.extract_pip_packages              *)
(***************************************************************************)
EXTENDS Integers, Sequences, FiniteSets, TLC

\* ---------------------------------------------------------------- bounds
MaxTasks == 2
MaxClock == 1
MaxWait == 1
MaxPkgs == 1
MaxTimeout == 1
MaxLines == 2
\* largest step_limit and minimum_iterations of an agent configuration
MaxSteps == 2
MaxMinimum == 2
\* lines of output of one agent command
MaxOutput == 2
\* messages of the transcript kept in the state: the prelude and the latest turns
MaxMessages == 6
\* capacity of a pipe, in chunks the child writes at a time
PipeBuffer == 1

\* components of a path of the final payload, and blank lines before it
MaxParts == 3
MaxBlank == 1
\* largest max_retries and base_delay (seconds) of the single-shot backend
MaxRetries == 3
MaxBaseDelay == 2
\* lines of the output an evaluator reads, and rows of a classification file
MaxOutLines == 2
MaxRows == 2
\* packages of one install batch
MaxBatch == 2
\* side-cars tracked when cleanup_processes is called
MaxSidecars == 2
\* commands the agent loop runs
MaxCommands == 2
\* fenced blocks of a response
MaxBlocks == 2

\* ------------------------------------------------------------- value sets
Names == {"a", "b"}
Backends == {"openai", "mini-swe", "mini-swe-iter"}
Pkgs == {"p"}
\* str(e) of a raised exception; Exception() has the empty message
ExcMsgs == {<<>>, <<"message">>}
\* task.task_script: not declared, declared but the file is absent, declared and present
SideCars == {"none", "missing", "present"}
\* the None of an optional workspace id
NoDir == 0
\* the side-car of the current task has not been started
NotStarted == -1
\* the None of task_name and of an unused executor
None == "None"

SeqsUpTo(S, n) == UNION {[1..k -> S] : k \in 0..n}

VARIABLES
    \* run_benchmark
    tasks, backend, task_name, results, i, pc,
    \* run_single_task locals
    task, task_start_time, defer_task_script, script_wait_reference,
    temp_dir, setup_dir, submission, exc, ret,
    \* EnvironmentManager and the operating system
    workspaces, running_processes, alive, now, installed, failed,
    \* history of the current task, the scratch workspace of its agent and
    \* the task record last saved for it
    events, raised, sidecar_started_at, inference, agent_workspace,
    task_details,
    \* ScriptExecutor.execute
    x_platform, x_pc, x_timeout, timeout_counter, elapsed, child, pipes_open,
    stdout_lines, x_result, signals, stderr_buf, child_blocked,
    \* DefaultAgent / IterativeAgent and the model wrapper
    agent_class, step_limit, cost_limit, minimum_iterations, messages, n_calls,
    cost, _step_index, a_pc, exit_status, a_result, last_output, queries,
    a_platform, timed_out,
    \* MiniSWEInferenceManager._load_script_content
    script_block, workspace, l_platform, l_pc, l_read,
    \* OpenAIInferenceManager._prompt_for_solution
    max_retries, base_delay, attempt, outcomes, delays, r_pc, r_raised,
    \* Evaluator.evaluate_result: the task, the output and the work_dir it is
    \* given, and the evaluation it returns
    result_type, output, expected_result, expected_string, case_sensitive,
    threshold, result_rows, truth_rows, checker, e_pc, evaluation,
    \* EnvironmentManager.install_packages: the batch, its loop and the
    \* installer process of the package at hand
    packages, pkg_index, successfully_installed, failed_packages, attempted,
    installer, n_pc, n_clock, installation,
    \* EnvironmentManager.cleanup_processes: the side-cars, the list that
    \* tracks them, and the calls made on each
    c_processes, c_tracked, c_running, c_calls, c_index, c_pc, c_clock,
    \* CommandTracker: its history, the commands the agent loop has run, and
    \* the OS packages derived when the loop has ended
    _history, executed, t_pc, detected_apt_packages,
    \* CodeExtractor.extract_pip_packages: the response and the list returned
    response, pip_packages, p_pc

bench_vars == <<tasks, backend, task_name, results, i, pc>>
local_vars == <<task, task_start_time, defer_task_script, script_wait_reference,
                temp_dir, setup_dir, submission, exc, ret>>
env_vars == <<workspaces, running_processes, alive, now, installed, failed>>
hist_vars == <<events, raised, sidecar_started_at, inference, agent_workspace,
               task_details>>
exec_vars == <<x_platform, x_pc, x_timeout, timeout_counter, elapsed, child,
               pipes_open, stdout_lines, x_result, signals, stderr_buf,
               child_blocked>>
agent_vars == <<agent_class, step_limit, cost_limit, minimum_iterations,
                messages, n_calls, cost, _step_index, a_pc, exit_status,
                a_result, last_output, queries, a_platform, timed_out>>
load_vars == <<script_block, workspace, l_platform, l_pc, l_read>>
\* the variables of the calls that are modelled on their own
retry_vars == <<max_retries, base_delay, attempt, outcomes, delays, r_pc, r_raised>>
eval_vars == <<result_type, output, expected_result, expected_string,
               case_sensitive, threshold, result_rows, truth_rows, checker,
               e_pc, evaluation>>
install_vars == <<packages, pkg_index, successfully_installed, failed_packages,
                  attempted, installer, n_pc, n_clock, installation>>
\* the variables of the operations that are modelled on their own
cleanup_vars == <<c_processes, c_tracked, c_running, c_calls, c_index, c_pc,
                  c_clock>>
track_vars == <<_history, executed, t_pc, detected_apt_packages>>
extract_vars == <<response, pip_packages, p_pc>>
op_vars == <<install_vars, cleanup_vars, track_vars, extract_vars>>
fn_vars == <<load_vars, retry_vars, eval_vars, op_vars>>
vars == <<bench_vars, local_vars, env_vars, hist_vars, exec_vars, agent_vars,
          fn_vars>>

\* ------------------------------------------------------------ helpers
NoTask == [task_script |-> "none", script_wait_time |-> 0]
NoSubmission == [script_content |-> FALSE, apt_packages |-> <<>>,
                 pip_packages |-> <<>>, workspace_path |-> FALSE]
NoInstall == [apt |-> <<>>, pip |-> <<>>]

\* the task being processed by the loop of run_benchmark
Stem == tasks[i]

\* the deferral test with the iterative agent variant forgotten
ShouldDeferOnlyMiniSwe(t, b) ==
    t.task_script # "none" /\ b \in {"mini-swe"}

\* benchmark.py:199-201
_should_defer_task_script(t, b) ==
    t.task_script # "none" /\ b \in {"mini-swe", "mini-swe-iter"}

\* static state of the executor while the orchestrator runs
ExecIdle ==
    /\ x_platform = None /\ x_pc = "idle" /\ x_timeout = 0
    /\ timeout_counter = 0 /\ elapsed = 0 /\ child = "none"
    /\ pipes_open = FALSE /\ stdout_lines = <<>> /\ x_result = <<>>
    /\ signals = <<>> /\ stderr_buf = 0 /\ child_blocked = FALSE

\* static state of the agent while the orchestrator or an executor runs
AgentIdle ==
    /\ agent_class = None /\ step_limit = 0 /\ cost_limit = 0
    /\ minimum_iterations = 0 /\ messages = <<>> /\ n_calls = 0 /\ cost = 0
    /\ _step_index = 0 /\ a_pc = "idle" /\ exit_status = None
    /\ a_result = <<>> /\ last_output = <<>> /\ queries = 0
    /\ a_platform = None /\ timed_out = FALSE

\* static state of _load_script_content while something else runs
LoadIdle ==
    /\ script_block = <<>> /\ workspace = <<>> /\ l_platform = None
    /\ l_pc = "idle" /\ l_read = None

\* static state of _prompt_for_solution while something else runs
RetryIdle ==
    /\ max_retries = 0 /\ base_delay = 0 /\ attempt = 0 /\ outcomes = <<>>
    /\ delays = <<>> /\ r_pc = "idle" /\ r_raised = None

\* a checker that is never run
NoChecker ==
    [script_exists |-> FALSE, python_exists |-> FALSE, run |-> "exited",
     stdout |-> "", returncode |-> 0]

\* the inputs of evaluate_result that the result type at hand does not read
NumericalUnused == output = <<>> /\ expected_result = 0
StringUnused == expected_string = "" /\ case_sensitive = TRUE
ClassificationUnused ==
    /\ threshold = [num |-> 0, den |-> 1]
    /\ result_rows = <<>> /\ truth_rows = <<>>
ScriptRunUnused == checker = NoChecker

\* static state of evaluate_result while something else runs
EvalIdle ==
    /\ result_type = None /\ e_pc = "idle" /\ evaluation = [success |-> FALSE]
    /\ NumericalUnused /\ StringUnused /\ ClassificationUnused /\ ScriptRunUnused

\* static state of install_packages while something else runs
InstallIdle ==
    /\ packages = <<>> /\ pkg_index = 0 /\ successfully_installed = <<>>
    /\ failed_packages = <<>> /\ attempted = <<>> /\ installer = None
    /\ n_pc = "idle" /\ n_clock = 0 /\ installation = <<>>

\* static state of cleanup_processes while something else runs
CleanupIdle ==
    /\ c_processes = <<>> /\ c_tracked = <<>> /\ c_running = <<>>
    /\ c_calls = <<>> /\ c_index = 0 /\ c_pc = "idle" /\ c_clock = 0

\* static state of the command tracker while something else runs
TrackIdle ==
    /\ _history = <<>> /\ executed = <<>> /\ t_pc = "idle"
    /\ detected_apt_packages = {}

\* static state of extract_pip_packages while something else runs
ExtractIdle == response = <<>> /\ pip_packages = <<>> /\ p_pc = "idle"

OpIdle == InstallIdle /\ CleanupIdle /\ TrackIdle /\ ExtractIdle

FnIdle == LoadIdle /\ RetryIdle /\ EvalIdle /\ OpIdle

\* static state of the orchestrator while an executor or an agent runs
BenchIdle ==
    /\ tasks = <<>> /\ backend = "openai" /\ task_name = None
    /\ results = <<>> /\ i = 0 /\ pc = "idle"
    /\ task = NoTask /\ task_start_time = 0 /\ defer_task_script = FALSE
    /\ script_wait_reference = 0 /\ temp_dir = NoDir /\ setup_dir = NoDir
    /\ submission = NoSubmission /\ exc = <<>> /\ ret = <<>>
    /\ workspaces = {} /\ running_processes = <<>> /\ alive = {} /\ now = 0
    /\ installed = NoInstall /\ failed = NoInstall
    /\ events = <<>> /\ raised = FALSE /\ sidecar_started_at = NotStarted
    /\ inference = None /\ agent_workspace = "none" /\ task_details = <<>>

\* ScriptBenchmark.__init__ followed by the call of run_benchmark(task_name)
Init ==
    /\ tasks \in SeqsUpTo(Names, MaxTasks)
    /\ backend \in Backends
    /\ task_name \in {None, "a"}
    /\ results = <<>> /\ i = 0 /\ pc = "run_benchmark"
    /\ task = NoTask /\ task_start_time = 0 /\ defer_task_script = FALSE
    /\ script_wait_reference = 0 /\ temp_dir = NoDir /\ setup_dir = NoDir
    /\ submission = NoSubmission /\ exc = <<>> /\ ret = <<>>
    /\ workspaces = {} /\ running_processes = <<>> /\ alive = {} /\ now = 0
    /\ installed = NoInstall /\ failed = NoInstall
    /\ events = <<>> /\ raised = FALSE /\ sidecar_started_at = NotStarted
    /\ inference = None /\ agent_workspace = "none" /\ task_details = <<>>
    /\ ExecIdle
    /\ AgentIdle
    /\ FnIdle

\* time that passes while a step runs; the clock is capped at MaxClock
Passes(d) == d \in 0..1 /\ now + d <= MaxClock /\ now' = now + d

\* an exception leaves the try block of run_single_task (benchmark.py:151);
\* exc is <<>> or the one-element sequence holding str(e)
Raise(msg) ==
    /\ exc' = <<msg>>
    /\ raised' = TRUE
    /\ pc' = "except"

\* ------------------------------------------------------- result records
\* the error field carrying str(error) alone
UnexpectedErrorResultBare(name, msg) ==
    [task_name |-> name, success |-> FALSE, error |-> msg]

\* benchmark.py:431-437
UnexpectedErrorResult(name, msg) ==
    [task_name |-> name, success |-> FALSE, error |-> <<"Unexpected error: ">> \o msg]

\* benchmark.py:387-393
NoScriptResult(name) ==
    [task_name |-> name, success |-> FALSE,
     error |-> <<"No Python script found in LLM response">>]

\* the record that says the task passed whatever the handler returns
DetailedLogPassed(result) ==
    [success |-> TRUE, error |-> result.error]

\* benchmark.py:384-385, 408-409, 426-427: the handler writes into
\* detailed_log the error and the success flag of the result it returns
DetailedLog(result) ==
    [success |-> result.success, error |-> result.error]

\* logger.py:46-53: the record is written to <task_name>.yaml, over what an
\* earlier call has written
save_task_details(details) == <<details>>

\* benchmark.py:64-71
CriticalErrorResult(name, msg) ==
    [task_name |-> name, success |-> FALSE, error |-> <<"Critical error: ">> \o msg]

\* cleanup removing the tree before it stops the processes
CleanupOrderTreeFirst == <<"rmtree", "cleanup_processes">>

\* environment.py:452-455: cleanup stops the processes, then removes the tree
CleanupOrder == <<"cleanup_processes", "rmtree">>

AfterCleanupStep(step) ==
    IF step = CleanupOrder[1] THEN CleanupOrder[2] ELSE "leave"

\* the deferred side-car start placed after the wait gate
StageOrderLateSidecar ==
    <<"produce_submission", "submission_artifacts",
      "install_apt", "install_pip", "wait_gate", "start_deferred", "execute_script">>

\* benchmark.py:102-144: the statements of the try block after the setup, in
\* program order
StageOrder ==
    <<"produce_submission", "submission_artifacts", "start_deferred",
      "install_apt", "install_pip", "wait_gate", "execute_script">>

NextStage(stage) ==
    LET k == CHOOSE n \in 1..Len(StageOrder) : StageOrder[n] = stage
    IN  StageOrder[k + 1]

\* ------------------------------------------------------------ run_benchmark
\* benchmark.py:37-50: load the tasks, select by task_name
RunBenchmark ==
    /\ pc = "run_benchmark"
    /\ IF task_name # None
       THEN LET sel == SelectSeq(tasks, LAMBDA n : n = task_name) IN
            IF sel = <<>>
            THEN pc' = "value_error" /\ UNCHANGED tasks
            ELSE pc' = "loop" /\ tasks' = sel
       ELSE pc' = "loop" /\ UNCHANGED tasks
    /\ UNCHANGED <<backend, task_name, results, i>>
    /\ UNCHANGED <<local_vars, env_vars, hist_vars, exec_vars, agent_vars, fn_vars>>

\* benchmark.py:52-56: the next task of the loop enters run_single_task
LoopNext ==
    /\ pc = "loop"
    /\ i < Len(tasks)
    /\ i' = i + 1
    /\ pc' = "run_single_task"
    /\ UNCHANGED <<tasks, backend, task_name, results>>
    /\ UNCHANGED <<local_vars, env_vars, hist_vars, exec_vars, agent_vars, fn_vars>>

\* benchmark.py:76-79: the loop is over, results is returned
LoopEnd ==
    /\ pc = "loop"
    /\ i = Len(tasks)
    /\ pc' = "returned"
    /\ UNCHANGED <<tasks, backend, task_name, results, i>>
    /\ UNCHANGED <<local_vars, env_vars, hist_vars, exec_vars, agent_vars, fn_vars>>

\* ---------------------------------------------------------- run_single_task
\* benchmark.py:81-90. The Task object (task.py:40-63) is the input of the call:
\* its side-car declaration and script_wait_time are drawn here.
\* get_task_directory (logger.py:78-82) runs before the try block.
StartTask ==
    /\ pc = "run_single_task"
    /\ \E sc \in SideCars, w \in 0..MaxWait :
          /\ task' = [task_script |-> sc, script_wait_time |-> w]
          /\ defer_task_script' = _should_defer_task_script(task', backend)
    /\ task_start_time' = now
    /\ script_wait_reference' = now
    /\ temp_dir' = NoDir
    /\ setup_dir' = NoDir
    /\ submission' = NoSubmission
    /\ ret' = <<>>
    /\ installed' = NoInstall
    /\ failed' = NoInstall
    /\ \/ pc' = "setup_task_environment" /\ exc' = <<>> /\ UNCHANGED raised
       \/ \E m \in ExcMsgs : pc' = "leave" /\ exc' = <<m>> /\ raised' = TRUE
    /\ UNCHANGED <<tasks, backend, task_name, results, i>>
    /\ UNCHANGED <<workspaces, running_processes, alive, now>>
    /\ UNCHANGED <<events, sidecar_started_at, inference, agent_workspace, task_details, exec_vars, agent_vars, fn_vars>>

\* environment.py:31-32: tempfile.mkdtemp
SetupMkdtemp ==
    /\ pc = "setup_task_environment"
    /\ \/ /\ workspaces' = workspaces \cup {i}
          /\ setup_dir' = i
          /\ events' = Append(events, "workspace_created")
          /\ pc' = "setup_files"
          /\ UNCHANGED <<exc, raised>>
       \/ /\ \E m \in ExcMsgs : Raise(m)
          /\ UNCHANGED <<workspaces, setup_dir, events>>
    /\ UNCHANGED <<tasks, backend, task_name, results, i>>
    /\ UNCHANGED <<task, task_start_time, defer_task_script, script_wait_reference,
                   temp_dir, submission, ret>>
    /\ UNCHANGED <<running_processes, alive, now, installed, failed>>
    /\ UNCHANGED <<sidecar_started_at, inference, agent_workspace, task_details, exec_vars, agent_vars, fn_vars>>

\* environment.py:34-35: _setup_task_files, _setup_script_file (copytree, copy2)
SetupFiles ==
    /\ pc = "setup_files"
    /\ \E d \in 0..1 : Passes(d)
    /\ \/ pc' = "setup_sidecar" /\ UNCHANGED <<exc, raised>>
       \/ \E m \in ExcMsgs : Raise(m)
    /\ UNCHANGED <<tasks, backend, task_name, results, i>>
    /\ UNCHANGED <<task, task_start_time, defer_task_script, script_wait_reference,
                   temp_dir, setup_dir, submission, ret>>
    /\ UNCHANGED <<workspaces, running_processes, alive, installed, failed>>
    /\ UNCHANGED <<events, sidecar_started_at, inference, agent_workspace, task_details, exec_vars, agent_vars, fn_vars>>

\* environment.py:65-70, 139-171: _start_task_script_if_needed. The process is
\* named by the index of its task. ev is the event the start is logged as.
StartTaskScript(ev, next) ==
    \/ /\ task.task_script = "present"
       /\ running_processes' = Append(running_processes, i)
       /\ alive' = alive \cup {i}
       /\ sidecar_started_at' = now
       /\ events' = Append(events, ev)
       /\ pc' = next
       /\ UNCHANGED <<exc, raised>>
    \/ /\ task.task_script = "present"
       /\ \E m \in ExcMsgs : Raise(m)
       /\ UNCHANGED <<running_processes, alive, sidecar_started_at, events>>
    \/ /\ task.task_script # "present"
       /\ pc' = next
       /\ UNCHANGED <<running_processes, alive, sidecar_started_at, events, exc, raised>>

\* environment.py:36-37: the side-car start of setup_task_environment
SetupSidecar ==
    /\ pc = "setup_sidecar"
    /\ IF ~defer_task_script
       THEN StartTaskScript("sidecar_started", "create_venv")
       ELSE /\ pc' = "create_venv"
            /\ UNCHANGED <<running_processes, alive, sidecar_started_at, events, exc, raised>>
    /\ UNCHANGED <<tasks, backend, task_name, results, i>>
    /\ UNCHANGED <<task, task_start_time, defer_task_script, script_wait_reference,
                   temp_dir, setup_dir, submission, ret>>
    /\ UNCHANGED <<workspaces, now, installed, failed, inference, agent_workspace, task_details, exec_vars,
                   agent_vars, fn_vars>>

\* environment.py:187-208 and benchmark.py:192-197: only when create_venv has
\* returned does run_single_task learn temp_dir
CreateVenv ==
    /\ pc = "create_venv"
    /\ \/ /\ temp_dir' = setup_dir
          /\ pc' = StageOrder[1]
          /\ UNCHANGED <<exc, raised>>
       \/ /\ \E m \in ExcMsgs : Raise(m)
          /\ UNCHANGED temp_dir
    /\ UNCHANGED <<tasks, backend, task_name, results, i>>
    /\ UNCHANGED <<task, task_start_time, defer_task_script, script_wait_reference,
                   setup_dir, submission, ret>>
    /\ UNCHANGED <<workspaces, running_processes, alive, now, installed, failed>>
    /\ UNCHANGED <<events, sidecar_started_at, inference, agent_workspace, task_details, exec_vars, agent_vars, fn_vars>>

\* inference/openai_manager.py:44-68 raises when the response has no script;
\* inference/mini_swe_manager.py:126-208 returns the file's text, which may be
\* empty, and the agent workspace
Submissions(b) ==
    [script_content : IF b = "openai" THEN {TRUE} ELSE BOOLEAN,
     apt_packages : SeqsUpTo(Pkgs, MaxPkgs),
     pip_packages : SeqsUpTo(Pkgs, MaxPkgs),
     workspace_path : {b # "openai"}]

\* the python fenced block of the single-shot model's response: no block, a
\* block of white space only, or a block holding code
PythonBlocks == {"absent", "blank", "code"}

\* the whole response taken as the script when it has no python block
extract_python_script_whole(block) ==
    IF block = "blank" THEN "" ELSE "code"

\* code_extraction.py:56-62: the first match, stripped, or None
extract_python_script(block) ==
    CASE block = "absent" -> None
      [] block = "blank" -> ""
      [] OTHER -> "code"

\* openai_manager.py:51: `not script_content`
NoScriptContent(script_content) == script_content \in {None, ""}

\* default.py:93-95: how agent.run returns
AgentExits == {"Submitted", "LimitsExceeded"}

\* the text of the final payload: empty, a line that names no file of the
\* workspace, or the relative path of a file of the workspace
ResultTexts == {"empty", "invalid", "path"}

\* run returning what the agent printed last, whatever ended the loop
ResultTextLastOutput(status) == ResultTexts

\* default.py:93-95, 105-106, 146-147: run returns (type(exc).__name__,
\* str(exc)); LimitsExceeded is raised without arguments, so its text is
\* empty, and Submitted carries the lines that follow the sentinel
ResultText(status) ==
    IF status = "LimitsExceeded" THEN {"empty"} ELSE ResultTexts

\* str(e) of the error that produce_submission raises:
\* openai_manager.py:52, mini_swe_manager.py:517-533, or any other error
InferenceError(f) ==
    CASE f \in {"absent", "blank"} -> {<<"No Python script found in LLM response">>}
      [] f \in AgentExits -> {<<"Mini SWE submission did not include a script path">>}
      [] OTHER -> ExcMsgs

\* openai_manager.py:44-68: the response is searched for its python block and
\* the call raises when there is none
ProduceSubmissionOpenAI ==
    /\ backend = "openai"
    /\ \E block \in PythonBlocks :
          LET script_content == extract_python_script(block) IN
          /\ inference' = block
          /\ UNCHANGED agent_workspace
          /\ IF NoScriptContent(script_content)
             THEN /\ \E m \in InferenceError(block) : Raise(m)
                  /\ UNCHANGED <<submission, events>>
             ELSE /\ submission' \in Submissions(backend)
                  /\ events' = Append(events, "submission_produced")
                  /\ pc' = NextStage("produce_submission")
                  /\ UNCHANGED <<exc, raised>>

\* mini_swe_manager.py:149-169, 512-535: agent.run returns its exit status and
\* final payload; _load_script_content raises unless the payload names a
\* file of the workspace
ProduceSubmissionMiniSwe ==
    /\ backend # "openai"
    /\ \E status \in AgentExits : \E result_text \in ResultText(status) :
          /\ inference' = status
          /\ agent_workspace' = "exists"
          /\ IF result_text # "path"
             THEN /\ \E m \in InferenceError(status) : Raise(m)
                  /\ UNCHANGED <<submission, events>>
             ELSE /\ submission' \in Submissions(backend)
                  /\ events' = Append(events, "submission_produced")
                  /\ pc' = NextStage("produce_submission")
                  /\ UNCHANGED <<exc, raised>>

\* openai_manager.py:70-120 re-raising the model's error after the last
\* retry; mini_swe_manager.py:141-157 raising from the set-up or from agent.run
\* (mini_swe_manager.py:127: unless mkdtemp itself has raised, the scratch
\* workspace of the agent exists by then, and nothing removes it)
ProduceSubmissionRaises ==
    /\ inference' = "error"
    /\ agent_workspace' \in IF backend = "openai" THEN {"none"}
                                                ELSE {"none", "exists"}
    /\ \E m \in InferenceError("error") : Raise(m)
    /\ UNCHANGED <<submission, events>>

\* benchmark.py:102, 203-216: _produce_submission
ProduceSubmission ==
    /\ pc = "produce_submission"
    /\ \E d \in 0..1 : Passes(d)
    /\ \/ ProduceSubmissionOpenAI
       \/ ProduceSubmissionMiniSwe
       \/ ProduceSubmissionRaises
    /\ UNCHANGED task_details
    /\ UNCHANGED <<tasks, backend, task_name, results, i>>
    /\ UNCHANGED <<task, task_start_time, defer_task_script, script_wait_reference,
                   temp_dir, setup_dir, ret>>
    /\ UNCHANGED <<workspaces, running_processes, alive, installed, failed>>
    /\ UNCHANGED <<sidecar_started_at, exec_vars, agent_vars, fn_vars>>

\* benchmark.py:223-225, 249-253: the scratch workspace of the agent is
\* removed once it has been copied; a failure of rmtree is logged
RemoveWorkspace(s, scratch) ==
    IF s.workspace_path THEN {"removed", "exists"} ELSE {scratch}

\* benchmark.py:103-120: _handle_submission_artifacts (copytree may raise when
\* the submission carries a workspace), then the branch on script_content
HandleSubmissionArtifacts ==
    /\ pc = "submission_artifacts"
    /\ \/ /\ pc' = IF ~submission.script_content THEN "no_script"
                   ELSE NextStage("submission_artifacts")
          /\ agent_workspace' \in RemoveWorkspace(submission, agent_workspace)
          /\ UNCHANGED <<exc, raised>>
       \/ /\ submission.workspace_path
          /\ \E m \in ExcMsgs : Raise(m)
          /\ UNCHANGED agent_workspace
    /\ UNCHANGED <<tasks, backend, task_name, results, i>>
    /\ UNCHANGED <<task, task_start_time, defer_task_script, script_wait_reference,
                   temp_dir, setup_dir, submission, ret>>
    /\ UNCHANGED <<env_vars, events, sidecar_started_at, inference, task_details, exec_vars, agent_vars, fn_vars>>

\* benchmark.py:119-120, 383-393: _handle_no_script_error; save_task_details
\* (logger.py:46-53) writes a file and may raise
HandleNoScriptError ==
    /\ pc = "no_script"
    /\ \/ /\ ret' = <<NoScriptResult(Stem)>>
          /\ task_details' = save_task_details(DetailedLog(NoScriptResult(Stem)))
          /\ events' = Append(events, "result_recorded")
          /\ pc' = "finally"
          /\ UNCHANGED <<exc, raised>>
       \/ /\ \E m \in ExcMsgs : Raise(m)
          /\ UNCHANGED <<ret, events, task_details>>
    /\ UNCHANGED <<tasks, backend, task_name, results, i>>
    /\ UNCHANGED <<task, task_start_time, defer_task_script, script_wait_reference,
                   temp_dir, setup_dir, submission>>
    /\ UNCHANGED <<env_vars, sidecar_started_at, inference, agent_workspace, exec_vars, agent_vars, fn_vars>>

\* benchmark.py:122-130: the deferred side-car start; the wait reference is
\* read from the clock after the start
StartDeferred ==
    /\ pc = "start_deferred"
    /\ IF defer_task_script /\ task.task_script # "none"
       THEN /\ StartTaskScript("sidecar_started_deferred", NextStage("start_deferred"))
            /\ script_wait_reference' =
                   IF pc' = "except" THEN script_wait_reference ELSE now
       ELSE /\ pc' = NextStage("start_deferred")
            /\ UNCHANGED <<running_processes, alive, sidecar_started_at, events,
                           exc, raised, script_wait_reference>>
    /\ UNCHANGED <<tasks, backend, task_name, results, i>>
    /\ UNCHANGED <<task, task_start_time, defer_task_script,
                   temp_dir, setup_dir, submission, ret>>
    /\ UNCHANGED <<workspaces, now, installed, failed, inference, agent_workspace, task_details, exec_vars,
                   agent_vars, fn_vars>>

\* the elements of pk whose outcome is in S, in list order
Pick(pk, o, S) ==
    LET F[k \in 0..Len(pk)] ==
            IF k = 0 THEN <<>>
            ELSE IF o[k] \in S THEN Append(F[k - 1], pk[k]) ELSE F[k - 1]
    IN  F[Len(pk)]

\* environment.py:297-331, 352-389: exit code 0, exit code # 0, wait timeout,
\* FileNotFoundError, any other exception (environment.py:291, 346)
InstallFailures == {"nonzero", "timeout", "not_found", "exception"}
\* environment.py:237-254: dpkg-query finds the package already installed
AptOutcomes == {"present", "ok"} \cup InstallFailures
PipOutcomes == {"ok"} \cup InstallFailures

\* benchmark.py:133, 255-262 and environment.py:210-225, 278-295
InstallApt ==
    /\ pc = "install_apt"
    /\ \E o \in [1..Len(submission.apt_packages) -> AptOutcomes] :
          /\ installed' = [installed EXCEPT !.apt = Pick(submission.apt_packages, o, {"ok"})]
          /\ failed' = [failed EXCEPT !.apt = Pick(submission.apt_packages, o, InstallFailures)]
    /\ pc' = NextStage("install_apt")
    /\ UNCHANGED <<tasks, backend, task_name, results, i>>
    /\ UNCHANGED <<local_vars, workspaces, running_processes, alive, now>>
    /\ UNCHANGED <<hist_vars, exec_vars, agent_vars, fn_vars>>

\* benchmark.py:134, 264-271 and environment.py:227-235, 333-350
InstallPip ==
    /\ pc = "install_pip"
    /\ \E d \in 0..1 : Passes(d)
    /\ \E o \in [1..Len(submission.pip_packages) -> PipOutcomes] :
          /\ installed' = [installed EXCEPT !.pip = Pick(submission.pip_packages, o, {"ok"})]
          /\ failed' = [failed EXCEPT !.pip = Pick(submission.pip_packages, o, InstallFailures)]
    /\ events' = Append(events, "packages_installed")
    /\ pc' = NextStage("install_pip")
    /\ UNCHANGED <<tasks, backend, task_name, results, i>>
    /\ UNCHANGED <<local_vars, workspaces, running_processes, alive>>
    /\ UNCHANGED <<raised, sidecar_started_at, inference, agent_workspace, task_details, exec_vars, agent_vars, fn_vars>>

\* benchmark.py:306-321: the seconds _handle_script_wait_time sleeps
RemainingWait(wait, reference, current) ==
    IF wait <= 0 THEN 0
    ELSE IF current - reference < wait THEN wait - (current - reference) ELSE 0

\* benchmark.py:137-142, 297-340
HandleScriptWaitTime ==
    /\ pc = "wait_gate"
    /\ now' = now + RemainingWait(task.script_wait_time, script_wait_reference, now)
    /\ events' = Append(events, "wait_gate_released")
    /\ pc' = NextStage("wait_gate")
    /\ UNCHANGED <<tasks, backend, task_name, results, i>>
    /\ UNCHANGED <<local_vars, workspaces, running_processes, alive, installed, failed>>
    /\ UNCHANGED <<raised, sidecar_started_at, inference, agent_workspace, task_details, exec_vars, agent_vars, fn_vars>>

\* benchmark.py:144, 273-290: _execute_script writes script.py and saves a
\* copy, then calls Evaluator(self.logger,
\* task.script_timeout). Evaluator.__init__ (evaluator.py:16) takes the logger
\* only, so the call raises TypeError and run_script is never reached.
\* Nothing reads the submission or the install lists after this point.
ExecuteScript ==
    /\ pc = "execute_script"
    /\ Raise(<<"message">>)
    /\ submission' = NoSubmission
    /\ installed' = NoInstall
    /\ failed' = NoInstall
    /\ UNCHANGED <<tasks, backend, task_name, results, i>>
    /\ UNCHANGED <<task, task_start_time, defer_task_script, script_wait_reference,
                   temp_dir, setup_dir, ret>>
    /\ UNCHANGED <<workspaces, running_processes, alive, now>>
    /\ UNCHANGED <<events, sidecar_started_at, inference, agent_workspace, task_details, exec_vars, agent_vars, fn_vars>>

\* benchmark.py:151-153, 419-437: _handle_unexpected_error builds the result
\* after save_task_details, which may itself raise out of the handler
HandleUnexpectedError ==
    /\ pc = "except"
    /\ \/ /\ ret' = <<UnexpectedErrorResult(Stem, exc[1])>>
          /\ task_details' =
                 save_task_details(DetailedLog(UnexpectedErrorResult(Stem, exc[1])))
          /\ exc' = <<>>
          /\ events' = Append(events, "result_recorded")
       \/ /\ \E m \in ExcMsgs : exc' = <<m>>
          /\ UNCHANGED <<ret, events, task_details>>
    /\ pc' = "finally"
    /\ UNCHANGED <<tasks, backend, task_name, results, i>>
    /\ UNCHANGED <<task, task_start_time, defer_task_script, script_wait_reference,
                   temp_dir, setup_dir, submission>>
    /\ UNCHANGED <<env_vars, raised, sidecar_started_at, inference, agent_workspace, exec_vars, agent_vars, fn_vars>>

\* benchmark.py:154-157: the finally block cleans up only a known temp_dir
Finally ==
    /\ pc = "finally"
    /\ pc' = IF temp_dir # NoDir THEN CleanupOrder[1] ELSE "leave"
    /\ UNCHANGED <<tasks, backend, task_name, results, i>>
    /\ UNCHANGED <<local_vars, env_vars, hist_vars, exec_vars, agent_vars, fn_vars>>

Range(s) == {s[k] : k \in 1..Len(s)}

\* environment.py:429-450: every tracked process that is still running is
\* terminated (and killed after 5 s if it has not exited); the list is cleared
CleanupProcesses ==
    /\ pc = "cleanup_processes"
    /\ alive' = alive \ Range(running_processes)
    /\ running_processes' = <<>>
    /\ events' = IF Range(running_processes) \cap alive # {}
                 THEN Append(events, "sidecar_stopped") ELSE events
    /\ pc' = AfterCleanupStep("cleanup_processes")
    /\ UNCHANGED <<tasks, backend, task_name, results, i>>
    /\ UNCHANGED <<local_vars, workspaces, now, installed, failed>>
    /\ UNCHANGED <<raised, sidecar_started_at, inference, agent_workspace, task_details, exec_vars, agent_vars, fn_vars>>

\* the failure of the deletion leaving run_single_task as an exception
CleanupFailurePropagates ==
    exc' = <<(<<"message">>)>> /\ ret' = <<>>

\* benchmark.py:158-159: the exception of env_manager.cleanup is logged as
\* a warning; the result being returned, or the exception on its way out,
\* stays what it was
CleanupFailureLogged ==
    UNCHANGED <<exc, ret>>

\* environment.py:454-455 and benchmark.py:156-159: rmtree; its failure is
\* logged by run_single_task and goes no further
Rmtree ==
    /\ pc = "rmtree"
    /\ \/ /\ workspaces' = workspaces \ {temp_dir}
          /\ events' = IF temp_dir \in workspaces
                       THEN Append(events, "workspace_deleted") ELSE events
          /\ UNCHANGED <<exc, ret>>
       \/ /\ temp_dir \in workspaces
          /\ UNCHANGED <<workspaces, events>>
          /\ CleanupFailureLogged
    /\ pc' = AfterCleanupStep("rmtree")
    /\ UNCHANGED <<tasks, backend, task_name, results, i>>
    /\ UNCHANGED <<task, task_start_time, defer_task_script, script_wait_reference,
                   temp_dir, setup_dir, submission>>
    /\ UNCHANGED <<running_processes, alive, now, installed, failed>>
    /\ UNCHANGED <<raised, sidecar_started_at, inference, agent_workspace, task_details, exec_vars, agent_vars, fn_vars>>

\* the side-car is a program of its own and may exit at any time
SidecarExits ==
    /\ pc \notin {"returned", "value_error", "idle"}
    /\ \E p \in alive : alive' = alive \ {p}
    /\ UNCHANGED <<bench_vars, local_vars, workspaces, running_processes, now,
                   installed, failed>>
    /\ UNCHANGED <<hist_vars, exec_vars, agent_vars, fn_vars>>

\* the locals of run_single_task go out of scope and the history of the task
\* ends. Only differences of clock readings within one task are ever used
\* (benchmark.py:310-311), so the next task counts from 0 again.
LocalsGone ==
    /\ task' = NoTask /\ task_start_time' = 0 /\ defer_task_script' = FALSE
    /\ script_wait_reference' = 0 /\ temp_dir' = NoDir /\ setup_dir' = NoDir
    /\ submission' = NoSubmission /\ exc' = <<>> /\ ret' = <<>>
    /\ installed' = NoInstall /\ failed' = NoInstall
    /\ events' = <<>> /\ raised' = FALSE /\ sidecar_started_at' = NotStarted
    /\ inference' = None /\ agent_workspace' = "none" /\ task_details' = <<>>
    /\ now' = 0

\* benchmark.py:56-60: run_single_task returned a result, which is appended
ReturnResult ==
    /\ pc = "leave"
    /\ exc = <<>>
    /\ results' = Append(results, ret[1])
    /\ pc' = "loop"
    /\ LocalsGone
    /\ UNCHANGED <<tasks, backend, task_name, i>>
    /\ UNCHANGED <<workspaces, running_processes, alive>>
    /\ UNCHANGED <<exec_vars, agent_vars, fn_vars>>

\* the handler of run_benchmark logging the error without recording a result
CriticalErrorNoRecord ==
    /\ pc = "leave"
    /\ exc # <<>>
    /\ pc' = "loop"
    /\ LocalsGone
    /\ UNCHANGED <<tasks, backend, task_name, results, i>>
    /\ UNCHANGED <<workspaces, running_processes, alive>>
    /\ UNCHANGED <<exec_vars, agent_vars, fn_vars>>

\* benchmark.py:61-73: an exception left run_single_task; a failure result is
\* appended and the loop goes on
CriticalError ==
    /\ pc = "leave"
    /\ exc # <<>>
    /\ results' = Append(results, CriticalErrorResult(Stem, exc[1]))
    /\ pc' = "loop"
    /\ LocalsGone
    /\ UNCHANGED <<tasks, backend, task_name, i>>
    /\ UNCHANGED <<workspaces, running_processes, alive>>
    /\ UNCHANGED <<exec_vars, agent_vars, fn_vars>>

Next ==
    \/ RunBenchmark \/ LoopNext \/ LoopEnd
    \/ StartTask \/ SetupMkdtemp \/ SetupFiles \/ SetupSidecar \/ CreateVenv
    \/ ProduceSubmission \/ HandleSubmissionArtifacts \/ HandleNoScriptError
    \/ StartDeferred \/ InstallApt \/ InstallPip \/ HandleScriptWaitTime
    \/ ExecuteScript \/ HandleUnexpectedError \/ Finally
    \/ CleanupProcesses \/ Rmtree \/ SidecarExits
    \/ ReturnResult \/ CriticalError

Spec == Init /\ [][Next]_vars

\* ------------------------------------------------------ ScriptExecutor
\* execution/unix.py:88: max_timeouts = self.timeout * 10, one poll = 100 ms
PollsPerSecond == 10
\* execution/unix.py:31 and execution/windows.py:30: communicate(timeout=5)
CommunicateGrace == 5
\* execution/unix.py:40: communicate(timeout=2) after the kill
SecondGrace == 2

max_timeouts == x_timeout * PollsPerSecond
\* the model stops the clock of an execution here (in 100 ms ticks)
MaxElapsed == (MaxTimeout + CommunicateGrace + SecondGrace) * PollsPerSecond + 2

\* evaluator.py:26-31: the executor of the platform, with its timeout, is
\* about to run a command
InitExec ==
    /\ BenchIdle
    /\ AgentIdle
    /\ FnIdle
    /\ x_platform \in {"unix", "win32"}
    /\ x_timeout \in 1..MaxTimeout
    /\ x_pc = "run_script"
    /\ timeout_counter = 0 /\ elapsed = 0 /\ child = "none"
    /\ pipes_open = FALSE /\ stdout_lines = <<>> /\ x_result = <<>>
    /\ signals = <<>> /\ stderr_buf = 0 /\ child_blocked = FALSE

ExecResult(success, out, err) ==
    <<[success |-> success, stdout |-> out, stderr |-> err]>>

\* the error result without its error string
HandleExecutionErrorBare ==
    ExecResult(FALSE, <<>>, <<>>)

\* evaluator.py:63-77 and execution/base.py:54-69 with unix.py:72-75: the
\* failed result whose stderr is "Script execution failed: " + str(error)
_handle_execution_error ==
    ExecResult(FALSE, <<>>, <<"Script execution failed: ">>)

\* evaluator.py:33-57: run_script returns the validation error when the
\* interpreter of the venv or the script file is missing, else calls execute
RunScript ==
    /\ x_pc = "run_script"
    /\ \E python_exists, script_exists \in BOOLEAN :
          IF python_exists /\ script_exists
          THEN x_pc' = "popen" /\ UNCHANGED x_result
          ELSE x_pc' = "returned" /\ x_result' = _handle_execution_error
    /\ UNCHANGED <<x_platform, x_timeout, timeout_counter, elapsed, child,
                   pipes_open, stdout_lines, signals, stderr_buf, child_blocked>>
    /\ UNCHANGED <<bench_vars, local_vars, env_vars, hist_vars, agent_vars, fn_vars>>

\* execution/unix.py:16-24, 72-75 and execution/windows.py:15-23, 50-53:
\* subprocess.Popen starts the child or raises
Popen ==
    /\ x_pc = "popen"
    /\ \/ /\ child' = "running"
          /\ pipes_open' = TRUE
          /\ x_pc' = IF x_platform = "unix" THEN "stream" ELSE "win_communicate"
          /\ UNCHANGED x_result
       \/ /\ x_result' = _handle_execution_error
          /\ x_pc' = "returned"
          /\ UNCHANGED <<child, pipes_open>>
    /\ UNCHANGED <<x_platform, x_timeout, timeout_counter, elapsed, stdout_lines,
                   signals, stderr_buf, child_blocked>>
    /\ UNCHANGED <<bench_vars, local_vars, env_vars, hist_vars, agent_vars, fn_vars>>

\* the child is a program of its own: it exits with code 0 or not; the pipes
\* reach end-of-file unless a descendant still holds them
ChildExits ==
    /\ child = "running"
    /\ x_pc \in {"stream", "readline", "win_communicate"}
    /\ ~child_blocked
    /\ child' \in {"exited0", "exited1"}
    /\ pipes_open' \in {pipes_open, FALSE}
    /\ UNCHANGED <<x_platform, x_pc, x_timeout, timeout_counter, elapsed,
                   stdout_lines, x_result, signals, stderr_buf, child_blocked>>
    /\ UNCHANGED <<bench_vars, local_vars, env_vars, hist_vars, agent_vars, fn_vars>>

\* execution/unix.py:90-95: one iteration of the loop in which poll(100)
\* returns nothing: 100 ms have passed
PollSilent ==
    /\ x_pc = "stream"
    /\ child = "running"
    /\ timeout_counter < max_timeouts
    /\ pipes_open
    /\ stderr_buf = 0
    /\ elapsed < MaxElapsed
    /\ timeout_counter' = timeout_counter + 1
    /\ elapsed' = elapsed + 1
    /\ UNCHANGED <<x_platform, x_pc, x_timeout, child, pipes_open, stdout_lines,
                   x_result, signals, stderr_buf, child_blocked>>
    /\ UNCHANGED <<bench_vars, local_vars, env_vars, hist_vars, agent_vars, fn_vars>>

\* execution/unix.py:90-117: one iteration in which poll(100) reports a pipe:
\* the counter restarts and readline is called. The pipe holds a full line, a
\* blank line, the beginning of a line (readline blocks), or is at end-of-file
\* (readline returns ''), or the pipe is stderr and one chunk is taken out of
\* it, which lets a writer blocked on the full pipe go on. The data arrived d
\* ticks after poll was called.
PollReady ==
    /\ x_pc = "stream"
    /\ child = "running"
    /\ timeout_counter < max_timeouts
    /\ \E d \in 0..1 :
          /\ elapsed + d <= MaxElapsed
          /\ elapsed' = elapsed + d
    /\ timeout_counter' = 0
    /\ \/ /\ pipes_open
          /\ ~child_blocked
          /\ Len(stdout_lines) < MaxLines
          /\ stdout_lines' = Append(stdout_lines, "line")
          /\ UNCHANGED <<x_pc, pipes_open, stderr_buf, child_blocked>>
       \/ /\ pipes_open
          /\ ~child_blocked
          /\ UNCHANGED <<stdout_lines, x_pc, pipes_open, stderr_buf, child_blocked>>
       \/ /\ pipes_open
          /\ ~child_blocked
          /\ x_pc' = "readline"
          /\ UNCHANGED <<stdout_lines, pipes_open, stderr_buf, child_blocked>>
       \/ /\ stderr_buf = 0
          /\ ~child_blocked
          /\ pipes_open' = FALSE
          /\ UNCHANGED <<stdout_lines, x_pc, stderr_buf, child_blocked>>
       \/ /\ pipes_open
          /\ stderr_buf > 0
          /\ stderr_buf' = stderr_buf - 1
          /\ child_blocked' = FALSE
          /\ UNCHANGED <<stdout_lines, x_pc, pipes_open>>
    /\ UNCHANGED <<x_platform, x_timeout, child, x_result, signals>>
    /\ UNCHANGED <<bench_vars, local_vars, env_vars, hist_vars, agent_vars, fn_vars>>

\* execution/unix.py:103, 110: readline is blocked on an unfinished line; it
\* returns when the newline or end-of-file arrives, which a child blocked in
\* a write to the other pipe cannot send; until then 100 ms pass at a time
\* without the loop running
Readline ==
    /\ x_pc = "readline"
    /\ \/ /\ pipes_open
          /\ elapsed < MaxElapsed
          /\ elapsed' = elapsed + 1
          /\ UNCHANGED <<x_pc, stdout_lines>>
       \/ /\ ~(child = "running" /\ child_blocked)
          /\ x_pc' = "stream"
          /\ stdout_lines' = IF Len(stdout_lines) < MaxLines
                             THEN Append(stdout_lines, "line") ELSE stdout_lines
          /\ UNCHANGED elapsed
    /\ UNCHANGED <<x_platform, x_timeout, timeout_counter, child, pipes_open,
                   x_result, signals, stderr_buf, child_blocked>>
    /\ UNCHANGED <<bench_vars, local_vars, env_vars, hist_vars, agent_vars, fn_vars>>

\* execution/unix.py:45-47 and execution/windows.py:34-36
TimeoutResult ==
    ExecResult(FALSE, <<>>, <<"Script execution timed out">>)

\* the child fills the stderr pipe one chunk at a time; with the pipe full its
\* write blocks until the reader takes a chunk out (execution/unix.py:108-109)
ChildWritesStderr ==
    /\ x_pc \in {"stream", "readline"}
    /\ child = "running"
    /\ pipes_open
    /\ ~child_blocked
    /\ IF stderr_buf < PipeBuffer
       THEN stderr_buf' = stderr_buf + 1 /\ UNCHANGED child_blocked
       ELSE child_blocked' = TRUE /\ UNCHANGED stderr_buf
    /\ UNCHANGED <<x_platform, x_pc, x_timeout, timeout_counter, elapsed, child,
                   pipes_open, stdout_lines, x_result, signals>>
    /\ UNCHANGED <<bench_vars, local_vars, env_vars, hist_vars, agent_vars, fn_vars>>

\* execution/unix.py:90, 119-123, 44-47: the loop ends with the child still
\* running and the counter at max_timeouts: process.kill() (SIGKILL),
\* TimeoutExpired, and execute returns the timeout result with empty output
StreamTimeout ==
    /\ x_pc = "stream"
    /\ child = "running"
    /\ timeout_counter >= max_timeouts
    /\ child' = "killed"
    /\ signals' = Append(signals, "kill")
    /\ child_blocked' = FALSE
    /\ pipes_open' \in {pipes_open, FALSE}
    /\ x_result' = TimeoutResult
    /\ x_pc' = "returned"
    /\ UNCHANGED <<x_platform, x_timeout, timeout_counter, elapsed, stdout_lines,
                   stderr_buf>>
    /\ UNCHANGED <<bench_vars, local_vars, env_vars, hist_vars, agent_vars, fn_vars>>

\* execution/unix.py:62-70: the result built from the lines and the exit code
Finished ==
    ExecResult(child = "exited0", stdout_lines, <<>>)

\* execution/unix.py:90, 27-42: the loop ends because the child has exited;
\* communicate(timeout=5) returns at end-of-file, or after 5 s the child is
\* killed and communicate(timeout=2) follows
Communicate ==
    /\ x_pc = "stream"
    /\ child \in {"exited0", "exited1"}
    /\ \/ /\ ~pipes_open
          /\ x_result' = Finished
          /\ x_pc' = "returned"
          /\ UNCHANGED <<elapsed, pipes_open>>
       \/ /\ pipes_open
          /\ \E d \in {1, CommunicateGrace * PollsPerSecond} :
                /\ elapsed + d <= MaxElapsed
                /\ elapsed' = elapsed + d
          /\ pipes_open' = FALSE
          /\ x_result' = Finished
          /\ x_pc' = "returned"
       \/ /\ pipes_open
          /\ elapsed + CommunicateGrace * PollsPerSecond <= MaxElapsed
          /\ elapsed' = elapsed + CommunicateGrace * PollsPerSecond
          /\ x_pc' = "communicate2"
          /\ UNCHANGED <<x_result, pipes_open>>
    /\ stderr_buf' = 0
    /\ UNCHANGED <<x_platform, x_timeout, timeout_counter, child, stdout_lines,
                   signals, child_blocked>>
    /\ UNCHANGED <<bench_vars, local_vars, env_vars, hist_vars, agent_vars, fn_vars>>

\* execution/unix.py:36-42, 62-70: after the kill, communicate(timeout=2)
\* returns or times out; either way the result is built
Communicate2 ==
    /\ x_pc = "communicate2"
    /\ \E d \in {0, SecondGrace * PollsPerSecond} :
          /\ elapsed + d <= MaxElapsed
          /\ elapsed' = elapsed + d
    /\ pipes_open' \in {pipes_open, FALSE}
    /\ x_result' = Finished
    /\ x_pc' = "returned"
    /\ UNCHANGED <<x_platform, x_timeout, timeout_counter, child, stdout_lines,
                   signals, stderr_buf, child_blocked>>
    /\ UNCHANGED <<bench_vars, local_vars, env_vars, hist_vars, agent_vars, fn_vars>>

\* execution/windows.py:25-26: communicate(timeout=self.timeout) is waiting;
\* 100 ms pass
WinWait ==
    /\ x_pc = "win_communicate"
    /\ child = "running" \/ pipes_open
    /\ elapsed < max_timeouts
    /\ elapsed' = elapsed + 1
    /\ \/ UNCHANGED <<stdout_lines, pipes_open>>
       \/ /\ pipes_open
          /\ Len(stdout_lines) < MaxLines
          /\ stdout_lines' = Append(stdout_lines, "line")
          /\ UNCHANGED pipes_open
       \/ /\ child # "running"
          /\ pipes_open' = FALSE
          /\ UNCHANGED stdout_lines
    /\ UNCHANGED <<x_platform, x_pc, x_timeout, timeout_counter, child, x_result,
                   signals, stderr_buf, child_blocked>>
    /\ UNCHANGED <<bench_vars, local_vars, env_vars, hist_vars, agent_vars, fn_vars>>

\* execution/windows.py:26, 38-48: communicate returns once the child has
\* exited and the pipes are at end-of-file
WinDone ==
    /\ x_pc = "win_communicate"
    /\ child \in {"exited0", "exited1"}
    /\ ~pipes_open
    /\ x_result' = Finished
    /\ x_pc' = "returned"
    /\ UNCHANGED <<x_platform, x_timeout, timeout_counter, elapsed, child,
                   pipes_open, stdout_lines, signals, stderr_buf, child_blocked>>
    /\ UNCHANGED <<bench_vars, local_vars, env_vars, hist_vars, agent_vars, fn_vars>>

\* execution/windows.py:27-36: TimeoutExpired after self.timeout seconds:
\* process.kill(), communicate(timeout=5), and the timeout result with empty
\* output
WinTimeout ==
    /\ x_pc = "win_communicate"
    /\ child = "running" \/ pipes_open
    /\ elapsed >= max_timeouts
    /\ child' = IF child = "running" THEN "killed" ELSE child
    /\ signals' = IF child = "running" THEN Append(signals, "kill") ELSE signals
    /\ \/ pipes_open' = FALSE /\ UNCHANGED elapsed
       \/ /\ pipes_open
          /\ elapsed' = elapsed + CommunicateGrace * PollsPerSecond
          /\ UNCHANGED pipes_open
    /\ x_result' = TimeoutResult
    /\ x_pc' = "returned"
    /\ UNCHANGED <<x_platform, x_timeout, timeout_counter, stdout_lines,
                   stderr_buf, child_blocked>>
    /\ UNCHANGED <<bench_vars, local_vars, env_vars, hist_vars, agent_vars, fn_vars>>

NextExec ==
    \/ RunScript \/ Popen \/ ChildExits \/ ChildWritesStderr
    \/ PollSilent \/ PollReady \/ Readline \/ StreamTimeout
    \/ Communicate \/ Communicate2
    \/ WinWait \/ WinDone \/ WinTimeout

SpecExec == InitExec /\ [][NextExec]_vars

\* ------------------------------------------------------------- agent loop
AgentClasses == {"DefaultAgent", "IterativeAgent"}

\* number of ```bash blocks that re.findall finds in a response (default.py:124)
Responses == 0..2

\* lines a command may print
Lines == {"", " end ", "mini_swe_agent_final_output",
          "COMPLETE_TASK_AND_SUBMIT_FINAL_OUTPUT", "data"}

\* the output of one command, as its lines
Outputs == SeqsUpTo(Lines, MaxOutput)

\* str.strip
Strip(l) == IF l = " end " THEN "end" ELSE l

\* str.upper
Upper(l) ==
    CASE l = "end" -> "END"
      [] l = " end " -> " END "
      [] l = "mini_swe_agent_final_output" -> "MINI_SWE_AGENT_FINAL_OUTPUT"
      [] l = "data" -> "DATA"
      [] OTHER -> l

\* the completion markers with END left out
SentinelsWithoutEnd ==
    {"MINI_SWE_AGENT_FINAL_OUTPUT", "COMPLETE_TASK_AND_SUBMIT_FINAL_OUTPUT"}

\* default.py:142-146 and iterative.py:72
Sentinels ==
    {"MINI_SWE_AGENT_FINAL_OUTPUT", "COMPLETE_TASK_AND_SUBMIT_FINAL_OUTPUT", "END"}

\* default.py:141: output.lstrip().splitlines(keepends=True): the lines from
\* the first one that is not whitespace
RECURSIVE LStripLines(_)
LStripLines(out) ==
    IF out = <<>> THEN <<>>
    ELSE IF Strip(Head(out)) = "" THEN LStripLines(Tail(out))
    ELSE out

\* default.py:142: the test of _check_finished
IsFinished(out) ==
    LET lines == LStripLines(out)
    IN  lines # <<>> /\ Upper(Strip(lines[1])) \in Sentinels

\* default.py:147: "".join(lines[1:])
Payload(out) == Tail(LStripLines(out))

\* a counter kept exact up to cap and held there: every comparison the agent
\* makes is against a limit below cap
Inc(n, cap) == IF n < cap THEN n + 1 ELSE n

CallsCap == MaxSteps + 1
StepsCap == MaxMinimum + 1

\* the budget test with the step count allowed to pass the limit by one
LimitsReachedLate ==
    \/ 0 < step_limit /\ step_limit < n_calls
    \/ 0 < cost_limit /\ cost_limit <= cost

\* default.py:105
LimitsReached ==
    \/ 0 < step_limit /\ step_limit <= n_calls
    \/ 0 < cost_limit /\ cost_limit <= cost

\* default.py:78-79
add_message(m, role, content) ==
    Append(m, [role |-> role, content |-> content])

\* the transcript of the state: when it holds MaxMessages messages the oldest
\* turn after the prelude (an assistant and a user message) leaves the state
Recent(m) ==
    IF Len(m) >= MaxMessages
    THEN <<m[1], m[2]>> \o SubSeq(m, 5, Len(m))
    ELSE m

\* iterative.py:51-53: IterativeAgent.step counts the step before anything else
StepIndexNext ==
    IF agent_class = "IterativeAgent" THEN Inc(_step_index, StepsCap)
    ELSE _step_index

\* mini_swe_manager.py:141-145 and models/openai_model.py:27-32: an agent of
\* either class with its configured limits and a fresh model wrapper
InitAgent ==
    /\ BenchIdle
    /\ ExecIdle
    /\ FnIdle
    /\ agent_class \in AgentClasses
    /\ step_limit \in 0..MaxSteps
    /\ cost_limit \in {0, 3}
    /\ minimum_iterations \in 0..MaxMinimum
    /\ messages = <<>> /\ n_calls = 0 /\ cost = 0 /\ _step_index = 0
    /\ a_pc = "run" /\ exit_status = None
    /\ a_result = <<>> /\ last_output = <<>> /\ queries = 0
    /\ a_platform \in {"posix", "nt"} /\ timed_out = FALSE

AgentConfigUnchanged ==
    /\ UNCHANGED <<agent_class, step_limit, cost_limit, minimum_iterations, cost,
                   a_platform>>
    /\ UNCHANGED <<bench_vars, local_vars, env_vars, hist_vars, exec_vars, fn_vars>>

\* default.py:84-87 and iterative.py:40-49: run seeds the transcript
AgentRun ==
    /\ a_pc = "run"
    /\ messages' = add_message(add_message(<<>>, "system", "system"),
                               "user", "instance")
    /\ _step_index' = 0
    /\ a_pc' = "step"
    /\ UNCHANGED <<n_calls, exit_status, a_result, last_output, queries,
                   timed_out>>
    /\ AgentConfigUnchanged

\* default.py:105-106, 93-95: query raises LimitsExceeded before the model is
\* called; run appends str(exc) as a user message and returns
StepLimitsExceeded ==
    /\ a_pc = "step"
    /\ LimitsReached
    /\ _step_index' = StepIndexNext
    /\ messages' = add_message(Recent(messages), "user", "LimitsExceeded")
    /\ exit_status' = "LimitsExceeded"
    /\ a_result' = <<>>
    /\ last_output' = <<>>
    /\ a_pc' = "returned"
    /\ UNCHANGED <<n_calls, queries>>
    /\ timed_out' = FALSE
    /\ AgentConfigUnchanged

\* default.py:107 and models/openai_model.py:61: the request to the API raises;
\* the exception is neither terminating nor non-terminating and leaves run
QueryRaises ==
    /\ a_pc = "step"
    /\ ~LimitsReached
    /\ _step_index' = StepIndexNext
    /\ queries' = Inc(queries, CallsCap)
    /\ last_output' = <<>>
    /\ a_pc' = "raised"
    /\ UNCHANGED <<messages, n_calls, exit_status, a_result>>
    /\ timed_out' = FALSE
    /\ AgentConfigUnchanged

\* default.py:107-108 and models/openai_model.py:61-63: the model answers, the
\* call is counted and the assistant message is appended
Queried ==
    /\ a_pc = "step"
    /\ ~LimitsReached
    /\ _step_index' = StepIndexNext
    /\ n_calls' = Inc(n_calls, CallsCap)
    /\ queries' = Inc(queries, CallsCap)

Answered == add_message(Recent(messages), "assistant", "response")

\* default.py:121-127, 91-92: not exactly one bash block: FormatError, whose
\* text run appends as a user message
StepFormatError ==
    /\ Queried
    /\ \E r \in Responses : r # 1
    /\ messages' = add_message(Answered, "user", "format_error")
    /\ last_output' = <<>>
    /\ UNCHANGED <<a_pc, exit_status, a_result>>
    /\ timed_out' = FALSE
    /\ AgentConfigUnchanged

\* default.py:133 with subprocess.run(text=True) of environments/local.py:27-38:
\* the output of TimeoutExpired is bytes (or None) on POSIX, where _communicate
\* fills it, and the str returned by communicate() on Windows; the test
\* "if exc.output" skips the decode for None and for empty output
DecodeFails(has_output) ==
    a_platform = "nt" /\ has_output

\* default.py:129-136, 91-92 and environments/local.py:27-38: the command runs
\* past the timeout of the environment: ExecutionTimeoutError
StepTimeout ==
    /\ Queried
    /\ \E r \in Responses : r = 1
    /\ \E has_output \in BOOLEAN : ~DecodeFails(has_output)
    /\ messages' = add_message(Answered, "user", "timeout")
    /\ last_output' = <<>>
    /\ timed_out' = TRUE
    /\ UNCHANGED <<a_pc, exit_status, a_result>>
    /\ AgentConfigUnchanged

\* default.py:132-133: exc.output.decode raises AttributeError on the str that
\* the exception carries on Windows; raised inside the except clause, the
\* error leaves run
TimeoutDecodeRaises ==
    /\ Queried
    /\ \E r \in Responses : r = 1
    /\ \E has_output \in BOOLEAN : DecodeFails(has_output)
    /\ messages' = Answered
    /\ last_output' = <<>>
    /\ timed_out' = TRUE
    /\ a_pc' = "raised"
    /\ UNCHANGED <<exit_status, a_result>>
    /\ AgentConfigUnchanged

\* default.py:131 and environments/local.py:27: subprocess.run raises
\* something other than a timeout (the working directory is gone), which
\* leaves run
ExecuteRaises ==
    /\ Queried
    /\ \E r \in Responses : r = 1
    /\ messages' = Answered
    /\ last_output' = <<>>
    /\ a_pc' = "raised"
    /\ UNCHANGED <<exit_status, a_result>>
    /\ timed_out' = FALSE
    /\ AgentConfigUnchanged

\* default.py:111-117, 137-147: the command prints something that does not
\* finish the run: the observation is appended
StepObservation ==
    /\ Queried
    /\ \E r \in Responses : r = 1
    /\ \E out \in Outputs :
          /\ ~IsFinished(out)
          /\ last_output' = <<out>>
    /\ messages' = add_message(Answered, "user", "observation")
    /\ UNCHANGED <<a_pc, exit_status, a_result>>
    /\ timed_out' = FALSE
    /\ AgentConfigUnchanged

\* the floor test letting the last step before the floor finish
BelowMinimumLate(index) ==
    agent_class = "IterativeAgent" /\ index + 1 < minimum_iterations

\* iterative.py:73-74: the iterative agent refuses to finish below its floor
BelowMinimum(index) ==
    agent_class = "IterativeAgent" /\ index < minimum_iterations

\* iterative.py:66-82, default.py:91-92: the iterative agent is told to go on
\* when the command finishes before minimum_iterations steps
StepEarlySubmission ==
    /\ Queried
    /\ BelowMinimum(_step_index')
    /\ \E r \in Responses : r = 1
    /\ \E out \in Outputs :
          /\ IsFinished(out)
          /\ last_output' = <<out>>
    /\ messages' = add_message(Answered, "user", "early_submission")
    /\ UNCHANGED <<a_pc, exit_status, a_result>>
    /\ timed_out' = FALSE
    /\ AgentConfigUnchanged

\* default.py:140-147, 93-95 and iterative.py:83: Submitted carries the rest
\* of the output; run appends it as a user message and returns
StepSubmitted ==
    /\ Queried
    /\ ~BelowMinimum(_step_index')
    /\ \E r \in Responses : r = 1
    /\ \E out \in Outputs :
          /\ IsFinished(out)
          /\ last_output' = <<out>>
          /\ a_result' = Payload(out)
    /\ messages' = add_message(Answered, "user", "submitted")
    /\ exit_status' = "Submitted"
    /\ a_pc' = "returned"
    /\ timed_out' = FALSE
    /\ AgentConfigUnchanged

NextAgent ==
    \/ AgentRun
    \/ StepLimitsExceeded \/ QueryRaises
    \/ StepFormatError \/ StepTimeout \/ TimeoutDecodeRaises \/ ExecuteRaises
    \/ StepObservation \/ StepEarlySubmission \/ StepSubmitted

SpecAgent == InitAgent /\ [][NextAgent]_vars

\* default.py:88: while True: the loop of run goes on as long as it can
SpecAgentFair == SpecAgent /\ WF_vars(NextAgent)

\* ------------------------------------- _load_script_content
\* The file system the agent leaves behind, as absolute paths without links:
\* the workspace /w holding the file f, the directory d and the link o that
\* points at the file /x outside; /t is a link to the workspace, the way a
\* temporary directory is reached through a link on some systems.
Dirs == {<<>>, <<"w">>, <<"w", "d">>}
Files == {<<"w", "f">>, <<"x">>}
Links == {<<"w", "o">>, <<"t">>}
Readlink(path) == IF path = <<"t">> THEN <<"w">> ELSE <<"x">>

\* the names a line of the payload is made of; m names nothing
PartNames == {"..", "f", "d", "o", "m", "x", "w"}

\* a line of the payload: a path string, rooted (it starts with a separator)
\* or not; the line with no part and no root is the blank line
PayloadLines == [root : BOOLEAN, parts : SeqsUpTo(PartNames, MaxParts)]
BlankLine == [root |-> FALSE, parts |-> <<>>]

\* the final payload: blank lines, a line, and perhaps one more line, which
\* names the file outside
BlankLines(k) == [j \in 1..k |-> BlankLine]
TrailingLines == {<<>>, <<[root |-> FALSE, parts |-> <<"..", "x">>]>>}
ScriptBlocks ==
    {BlankLines(k) \o <<line>> \o rest :
        k \in 0..MaxBlank, line \in PayloadLines, rest \in TrailingLines}

\* mini_swe_manager.py:127: tempfile.mkdtemp returns the workspace as the
\* temporary directory names it, through a link or not
Workspaces == {<<"w">>, <<"t">>}

\* mini_swe_manager.py:515: the stripped lines that are not blank
NonBlankLines(block) == SelectSeq(block, LAMBDA line : line # BlankLine)

\* mini_swe_manager.py:521: Path.is_absolute. A posix path is absolute when it
\* has a root; a Windows path needs a drive as well, so the rooted path
\* without a drive is not absolute there
is_absolute(script_path, platform) == script_path.root /\ platform = "posix"

\* mini_swe_manager.py:524: workspace / script_path. A rooted path replaces
\* the left operand (on Windows it keeps the drive of the workspace).
Join(ws, script_path) ==
    IF script_path.root THEN script_path.parts ELSE ws \o script_path.parts

\* mini_swe_manager.py:524: Path.resolve(): the parts are walked from the
\* root, .. drops the last part, and a part that is a link is replaced by
\* its target; parts that do not exist are kept
RECURSIVE resolve(_, _)
resolve(cur, parts) ==
    IF parts = <<>> THEN cur
    ELSE LET part == Head(parts)
             step == IF part = ".."
                     THEN SubSeq(cur, 1, Len(cur) - 1)
                     ELSE IF Append(cur, part) \in Links
                          THEN Readlink(Append(cur, part))
                          ELSE Append(cur, part)
         IN  resolve(step, Tail(parts))

\* the containment test left out
relative_to_anything(path, other) == TRUE

\* mini_swe_manager.py:525-528: PurePath.relative_to succeeds when other is a
\* leading part of path, compared part by part
relative_to(path, other) ==
    /\ Len(other) <= Len(path)
    /\ SubSeq(path, 1, Len(other)) = other

\* mini_swe_manager.py:524: resolved_path of the first line of the payload
resolved_path == resolve(<<>>, Join(workspace, NonBlankLines(script_block)[1]))

\* the final payload, the workspace and the platform of one call
InitLoad ==
    /\ BenchIdle /\ ExecIdle /\ AgentIdle /\ RetryIdle /\ EvalIdle /\ OpIdle
    /\ script_block \in ScriptBlocks
    /\ workspace \in Workspaces
    /\ l_platform \in {"posix", "nt"}
    /\ l_pc = "_load_script_content"
    /\ l_read = None

LoadEnds(outcome, path) ==
    /\ l_pc' = outcome
    /\ l_read' = path
    /\ UNCHANGED <<script_block, workspace, l_platform>>
    /\ UNCHANGED <<bench_vars, local_vars, env_vars, hist_vars, exec_vars,
                   agent_vars, retry_vars, eval_vars,
                   op_vars>>

\* mini_swe_manager.py:515-517: no line names a path
LoadNoPath ==
    /\ l_pc = "_load_script_content"
    /\ NonBlankLines(script_block) = <<>>
    /\ LoadEnds("raised", None)

\* mini_swe_manager.py:519-522
LoadAbsolute ==
    /\ l_pc = "_load_script_content"
    /\ NonBlankLines(script_block) # <<>>
    /\ is_absolute(NonBlankLines(script_block)[1], l_platform)
    /\ LoadEnds("raised", None)

\* mini_swe_manager.py:524-528
LoadOutside ==
    /\ l_pc = "_load_script_content"
    /\ NonBlankLines(script_block) # <<>>
    /\ ~is_absolute(NonBlankLines(script_block)[1], l_platform)
    /\ ~relative_to(resolved_path, workspace)
    /\ LoadEnds("raised", None)

\* mini_swe_manager.py:530-531
LoadMissing ==
    /\ l_pc = "_load_script_content"
    /\ NonBlankLines(script_block) # <<>>
    /\ ~is_absolute(NonBlankLines(script_block)[1], l_platform)
    /\ relative_to(resolved_path, workspace)
    /\ resolved_path \notin Dirs \cup Files
    /\ LoadEnds("raised", None)

\* mini_swe_manager.py:532-533
LoadNotFile ==
    /\ l_pc = "_load_script_content"
    /\ NonBlankLines(script_block) # <<>>
    /\ ~is_absolute(NonBlankLines(script_block)[1], l_platform)
    /\ relative_to(resolved_path, workspace)
    /\ resolved_path \in Dirs
    /\ LoadEnds("raised", None)

\* mini_swe_manager.py:535: read_text of the resolved path
LoadReturns ==
    /\ l_pc = "_load_script_content"
    /\ NonBlankLines(script_block) # <<>>
    /\ ~is_absolute(NonBlankLines(script_block)[1], l_platform)
    /\ relative_to(resolved_path, workspace)
    /\ resolved_path \in Files
    /\ LoadEnds("returned", resolved_path)

NextLoad ==
    \/ LoadNoPath \/ LoadAbsolute \/ LoadOutside \/ LoadMissing
    \/ LoadNotFile \/ LoadReturns

SpecLoad == InitLoad /\ [][NextLoad]_vars

\* ------------------------------------- _prompt_for_solution
\* what one call of llm.invoke does: it answers, or raises one of two errors
CallErrors == {"e1", "e2"}
CallOutcomes == {"ok"} \cup CallErrors

\* random.uniform(0, 1) (openai_manager.py:113), at its two ends, in seconds
Jitter == 0..1

\* a retry following every failed call, the last one too
MoreAttemptsAlways == attempt <= max_retries

\* openai_manager.py:112: `if attempt < self.max_retries`
MoreAttempts == attempt < max_retries

\* openai_manager.py:113: base_delay * (2**attempt) + random.uniform(0, 1)
Delay(jitter) == base_delay * (2 ^ attempt) + jitter

\* openai_manager.py:25-30, 78: the configuration of the backend, and the
\* loop about to make its first call
InitRetry ==
    /\ BenchIdle /\ ExecIdle /\ AgentIdle /\ LoadIdle /\ EvalIdle /\ OpIdle
    /\ max_retries \in 0..MaxRetries
    /\ base_delay \in 1..MaxBaseDelay
    /\ attempt = 0 /\ outcomes = <<>> /\ delays = <<>>
    /\ r_pc = "invoke" /\ r_raised = None

RetryConfigUnchanged ==
    /\ UNCHANGED <<max_retries, base_delay>>
    /\ UNCHANGED <<bench_vars, local_vars, env_vars, hist_vars, exec_vars,
                   agent_vars, load_vars, eval_vars,
                   op_vars>>

\* openai_manager.py:79-102: the call answers and the response is returned
InvokeReturns ==
    /\ r_pc = "invoke"
    /\ outcomes' = Append(outcomes, "ok")
    /\ r_pc' = "returned"
    /\ UNCHANGED <<attempt, delays, r_raised>>
    /\ RetryConfigUnchanged

\* openai_manager.py:104-115, 120: the call raises, the backend sleeps and the
\* loop goes to its next attempt; when range(max_retries + 1) is used up the
\* RuntimeError of line 120 is raised
InvokeFailsSleeps ==
    /\ r_pc = "invoke"
    /\ MoreAttempts
    /\ \E e \in CallErrors : outcomes' = Append(outcomes, e)
    /\ \E jitter \in Jitter : delays' = Append(delays, Delay(jitter))
    /\ attempt' = attempt + 1
    /\ IF attempt + 1 <= max_retries
       THEN r_pc' = "invoke" /\ UNCHANGED r_raised
       ELSE r_pc' = "raised" /\ r_raised' = "RuntimeError"
    /\ RetryConfigUnchanged

\* openai_manager.py:104-118: the last call raises and its error is raised again
InvokeFailsRaises ==
    /\ r_pc = "invoke"
    /\ ~MoreAttempts
    /\ \E e \in CallErrors :
          /\ outcomes' = Append(outcomes, e)
          /\ r_raised' = e
    /\ r_pc' = "raised"
    /\ UNCHANGED <<attempt, delays>>
    /\ RetryConfigUnchanged

NextRetry == InvokeReturns \/ InvokeFailsSleeps \/ InvokeFailsRaises

SpecRetry == InitRetry /\ [][NextRetry]_vars

\* ------------------------------------- Evaluator.evaluate_result
\* evaluator.py:113, 119, 131: the result types that evaluate_result tells
\* apart, and the type of a task with an expected_string (task.py:54)
ResultTypes == {"numerical", "classification_match", "script_run", "string_answer"}

\* a line of the script's output: a log line, or ANSWER= followed by a token
\* that may stand in quotes
LogLine == [tag |-> "log", quote |-> "", text |-> ""]
AnswerLine(quote, text) == [tag |-> "answer", quote |-> quote, text |-> text]

\* the tokens of a numerical task's output: digits, digits after a minus sign,
\* and a token that is no number
Unsigned == {"0", "1", "2"}
Negative == {"-1", "-2"}
NumberLines ==
    {LogLine} \cup {AnswerLine("", t) : t \in Unsigned \cup Negative \cup {"x"}}

\* the answers of a string task's output, bare or in double or single quotes
Words == {"abc", "ABC", "xyz"}
StringLines ==
    {LogLine} \cup {AnswerLine(q, w) : q \in {"", "double", "single"}, w \in Words}

\* task.py:53: result.amount
ExpectedResults == -2..2

\* task.py:56: result.threshold, a fraction of [0, 1]
Thresholds == {t \in [num : 0..MaxRows, den : 1..MaxRows] : t.num <= t.den}

\* the target values of the rows of a csv file
Labels == {"x", "y"}

\* the checker script of a script_run task and what running it does:
\* script_run.py:29, 37 (the two files exist or not), 45-51 (subprocess.run
\* returns, times out, or fails to start the interpreter)
Stdouts == {"TRUE", " TRUE\n", "TRUE extra", "true", "", "FALSE"}
Checkers ==
    [script_exists : BOOLEAN, python_exists : BOOLEAN,
     run : {"exited", "timeout", "oserror"},
     stdout : Stdouts, returncode : 0..1]

\* re.search: of the lines that the pattern matches, the first, or 0
search(hits) ==
    IF hits = {} THEN 0 ELSE CHOOSE k \in hits : \A j \in hits : k <= j

\* numerical.py:17: r'ANSWER=(\d+(?:\.\d+)?)': ANSWER= followed by a digit
answer_pattern(line) == line.tag = "answer" /\ line.quote = "" /\ line.text \in Unsigned

\* numerical.py:30: float(match.group(1))
float(text) ==
    CASE text = "0" -> 0
      [] text = "1" -> 1
      [] text = "2" -> 2
      [] text = "-1" -> -1
      [] text = "-2" -> -2

\* numerical.py:12-48. The numbers of the model are integers, which differ by
\* 0 or by at least 1, so abs(actual - expected) < 1e-9 is their equality.
NumericalEvaluate(out, expected) ==
    LET match == search({k \in 1..Len(out) : answer_pattern(out[k])}) IN
    IF match = 0 THEN FALSE ELSE float(out[match].text) = expected

\* string_answer.py:19: ANSWER=, an optional quote, the value, and the same
\* quote again
string_pattern(line) == line.tag = "answer"

\* string_answer.py:41: str.lower
lower(text) == IF text = "ABC" THEN "abc" ELSE text

\* string_answer.py:12-79
StringAnswerEvaluate(out, expected, sensitive) ==
    LET match == search({k \in 1..Len(out) : string_pattern(out[k])}) IN
    IF match = 0 THEN FALSE
    ELSE IF sensitive THEN out[match].text = expected
         ELSE lower(out[match].text) = lower(expected)

\* classification.py:61-69: the rows whose target values agree
Matches(result, truth) ==
    Cardinality({k \in 1..Len(result) : result[k] = truth[k]})

\* classification.py:17, 43-49, 71-72, for files that exist and have a target
\* column; `not task.threshold` is true of the threshold 0
ClassificationEvaluate(thr, result, truth) ==
    IF thr.num = 0 THEN FALSE
    ELSE IF Len(result) # Len(truth) THEN FALSE
    ELSE IF Len(result) = 0 THEN FALSE
    ELSE Matches(result, truth) * thr.den >= thr.num * Len(result)

\* the output of the checker compared as it was printed
StripNothing(text) == text

\* script_run.py:53: result.stdout.strip()
StripStdout(text) == IF text = " TRUE\n" THEN "TRUE" ELSE text

\* script_run.py:18-89
ScriptRunEvaluate(c) ==
    IF ~c.script_exists THEN FALSE
    ELSE IF ~c.python_exists THEN FALSE
    ELSE IF c.run # "exited" THEN FALSE
    ELSE StripStdout(c.stdout) = "TRUE"

\* evaluator.py:99-108: the task, the output and the work_dir of one call
InitEval ==
    /\ BenchIdle /\ ExecIdle /\ AgentIdle /\ LoadIdle /\ RetryIdle /\ OpIdle
    /\ e_pc = "evaluate_result"
    /\ evaluation = [success |-> FALSE]
    /\ result_type \in ResultTypes
    /\ \/ /\ result_type = "numerical"
          /\ output \in SeqsUpTo(NumberLines, MaxOutLines)
          /\ expected_result \in ExpectedResults
          /\ StringUnused /\ ClassificationUnused /\ ScriptRunUnused
       \/ /\ result_type = "string_answer"
          /\ output \in SeqsUpTo(StringLines, MaxOutLines)
          /\ expected_string \in Words
          /\ case_sensitive \in BOOLEAN
          /\ expected_result = 0 /\ ClassificationUnused /\ ScriptRunUnused
       \/ /\ result_type = "classification_match"
          /\ threshold \in Thresholds
          /\ result_rows \in SeqsUpTo(Labels, MaxRows)
          /\ truth_rows \in SeqsUpTo(Labels, MaxRows)
          /\ NumericalUnused /\ StringUnused /\ ScriptRunUnused
       \/ /\ result_type = "script_run"
          /\ checker \in Checkers
          /\ NumericalUnused /\ StringUnused /\ ClassificationUnused

EvaluateReturns(success) ==
    /\ evaluation' = [success |-> success]
    /\ e_pc' = "returned"
    /\ UNCHANGED <<result_type, output, expected_result, expected_string,
                   case_sensitive, threshold, result_rows, truth_rows, checker>>
    /\ UNCHANGED <<bench_vars, local_vars, env_vars, hist_vars, exec_vars,
                   agent_vars, load_vars, retry_vars,
                   op_vars>>

\* evaluator.py:113-117
EvaluateNumerical ==
    /\ e_pc = "evaluate_result"
    /\ result_type = "numerical"
    /\ EvaluateReturns(NumericalEvaluate(output, expected_result))

\* evaluator.py:119-129
EvaluateClassification ==
    /\ e_pc = "evaluate_result"
    /\ result_type = "classification_match"
    /\ EvaluateReturns(ClassificationEvaluate(threshold, result_rows, truth_rows))

\* evaluator.py:131-141
EvaluateScriptRun ==
    /\ e_pc = "evaluate_result"
    /\ result_type = "script_run"
    /\ EvaluateReturns(ScriptRunEvaluate(checker))

\* evaluator.py:102-108, 143: no branch takes the task and the evaluation is
\* returned as it was initialised
EvaluateNoBranch ==
    /\ e_pc = "evaluate_result"
    /\ result_type \notin {"numerical", "classification_match", "script_run"}
    /\ EvaluateReturns(evaluation.success)

NextEval ==
    \/ EvaluateNumerical \/ EvaluateClassification \/ EvaluateScriptRun
    \/ EvaluateNoBranch

SpecEval == InitEval /\ [][NextEval]_vars

\* ------------------------------------- EnvironmentManager.install_packages
\* One call of ScriptBenchmark._install_packages: the batch of
\* EnvironmentManager.install_packages, package by package, and the entry it
\* leaves in the task record.  _install_apt_packages and install_apt_packages
\* run the same loop over the packages dpkg-query reports missing.

\* package names, and the longest list a submission asks for
BatchPkgs == {"p", "q"}
PackageLists == SeqsUpTo(BatchPkgs, MaxBatch)

\* what the installer process of one package does: it exits with code 0 or
\* 1, or it never exits, having closed its output or keeping it open
Installers == {"exits0", "exits1", "hangs", "hangs_pipe_open"}
\* what Popen raises instead of starting it
SpawnErrors == {"FileNotFoundError", "PermissionError", "OSError"}

\* environment.py:14-15
DEFAULT_TIMEOUT_SECONDS == 300
STREAM_TIMEOUT_SECONDS == 10

InitInstall ==
    /\ BenchIdle /\ ExecIdle /\ AgentIdle /\ LoadIdle /\ RetryIdle /\ EvalIdle
    /\ CleanupIdle /\ TrackIdle /\ ExtractIdle
    /\ packages \in PackageLists
    /\ pkg_index = 0
    /\ successfully_installed = <<>> /\ failed_packages = <<>>
    /\ attempted = <<>> /\ installer = None
    /\ n_pc = "install_packages" /\ n_clock = 0 /\ installation = <<>>

InstallUnchanged ==
    /\ UNCHANGED packages
    /\ UNCHANGED <<bench_vars, local_vars, env_vars, hist_vars, exec_vars,
                   agent_vars, load_vars, retry_vars, eval_vars, cleanup_vars,
                   track_vars, extract_vars>>

\* benchmark.py:264-271 with environment.py:227-235: the entry of the task
\* record holds the requested list and the value install_packages returns,
\* which is True on every path; the two lists of the batch are only logged
Installation(pkgs) ==
    [packages |-> pkgs, success |-> TRUE]

\* environment.py:228-229: nothing to install
InstallNothing ==
    /\ n_pc = "install_packages"
    /\ packages = <<>>
    /\ n_pc' = "returned"
    /\ installation' = <<Installation(packages)>>
    /\ UNCHANGED <<pkg_index, successfully_installed, failed_packages,
                   attempted, installer, n_clock>>
    /\ InstallUnchanged

\* environment.py:231-232, 335-336: the two lists start empty
InstallStarts ==
    /\ n_pc = "install_packages"
    /\ packages # <<>>
    /\ n_pc' = "loop"
    /\ pkg_index' = 1
    /\ UNCHANGED <<successfully_installed, failed_packages, attempted,
                   installer, n_clock, installation>>
    /\ InstallUnchanged

\* environment.py:342-348: the package at hand goes to one of the two lists
\* and the loop goes to the next one
PackageDone(success) ==
    /\ IF success
       THEN /\ successfully_installed' =
                   Append(successfully_installed, packages[pkg_index])
            /\ UNCHANGED failed_packages
       ELSE /\ failed_packages' = Append(failed_packages, packages[pkg_index])
            /\ UNCHANGED successfully_installed
    /\ pkg_index' = pkg_index + 1
    /\ installer' = None
    /\ n_pc' = "loop"

\* environment.py:338-340, 357-364: the next package of the list, Popen
\* starting its installer
InstallerStarts ==
    /\ n_pc = "loop"
    /\ pkg_index <= Len(packages)
    /\ attempted' = Append(attempted, packages[pkg_index])
    /\ installer' \in Installers
    /\ n_pc' = "stream"
    /\ n_clock' = 0
    /\ UNCHANGED <<pkg_index, successfully_installed, failed_packages,
                   installation>>
    /\ InstallUnchanged

\* environment.py:384-389 (False is returned) and 346-348 (any other
\* exception is caught by the loop): Popen raises
InstallerSpawnFails ==
    /\ n_pc = "loop"
    /\ pkg_index <= Len(packages)
    /\ \E e \in SpawnErrors :
          /\ attempted' = Append(attempted, packages[pkg_index])
          /\ PackageDone(FALSE)
    /\ n_clock' = 0
    /\ UNCHANGED installation
    /\ InstallUnchanged

\* environment.py:391-402: "for line in process.stdout" ends when the output
\* of the installer reaches its end, which an installer that keeps the pipe
\* open never lets happen; nothing bounds the read
StreamEnds ==
    /\ n_pc = "stream"
    /\ installer # "hangs_pipe_open"
    /\ n_pc' = "wait"
    /\ UNCHANGED <<pkg_index, successfully_installed, failed_packages,
                   attempted, installer, n_clock, installation>>
    /\ InstallUnchanged

\* a second passes while the call is blocked in the read of the output, in
\* process.wait(timeout=DEFAULT_TIMEOUT_SECONDS) or in the wait after the kill
InstallTick ==
    /\ \/ /\ n_pc = "stream" /\ installer = "hangs_pipe_open"
          /\ n_clock <= DEFAULT_TIMEOUT_SECONDS + STREAM_TIMEOUT_SECONDS
       \/ /\ n_pc = "wait" /\ installer = "hangs"
          /\ n_clock < DEFAULT_TIMEOUT_SECONDS
       \/ /\ n_pc = "kill_wait"
          /\ n_clock < DEFAULT_TIMEOUT_SECONDS + STREAM_TIMEOUT_SECONDS
    /\ n_clock' = n_clock + 1
    /\ UNCHANGED <<pkg_index, successfully_installed, failed_packages,
                   attempted, installer, n_pc, installation>>
    /\ InstallUnchanged

\* environment.py:368-369, 375-382: the installer has exited
WaitReturns ==
    /\ n_pc = "wait"
    /\ installer \in {"exits0", "exits1"}
    /\ PackageDone(installer = "exits0")
    /\ UNCHANGED <<attempted, n_clock, installation>>
    /\ InstallUnchanged

\* environment.py:370-372, 404-407: the wait times out and the installer is
\* killed
WaitTimesOut ==
    /\ n_pc = "wait"
    /\ installer = "hangs"
    /\ n_clock = DEFAULT_TIMEOUT_SECONDS
    /\ n_pc' = "kill_wait"
    /\ UNCHANGED <<pkg_index, successfully_installed, failed_packages,
                   attempted, installer, n_clock, installation>>
    /\ InstallUnchanged

\* environment.py:407-410, 373: process.wait(timeout=STREAM_TIMEOUT_SECONDS)
\* returns or times out, and False is returned either way
KillWaitEnds ==
    /\ n_pc = "kill_wait"
    /\ PackageDone(FALSE)
    /\ UNCHANGED <<attempted, n_clock, installation>>
    /\ InstallUnchanged

\* environment.py:350, 234-235 and benchmark.py:266-271: the loop is over
InstallReturns ==
    /\ n_pc = "loop"
    /\ pkg_index > Len(packages)
    /\ n_pc' = "returned"
    /\ installation' = <<Installation(packages)>>
    /\ UNCHANGED <<pkg_index, successfully_installed, failed_packages,
                   attempted, installer, n_clock>>
    /\ InstallUnchanged

NextInstall ==
    \/ InstallNothing \/ InstallStarts \/ InstallerStarts
    \/ InstallerSpawnFails \/ StreamEnds \/ InstallTick \/ WaitReturns
    \/ WaitTimesOut \/ KillWaitEnds \/ InstallReturns

SpecInstall == InitInstall /\ [][NextInstall]_vars

\* the call always takes the next step it can take
SpecInstallFair == SpecInstall /\ WF_vars(NextInstall)

\* ------------------------------------- EnvironmentManager.cleanup_processes
\* One call of cleanup_processes over the side-cars that start_task_script
\* has tracked.

\* what a tracked side-car does: it has exited before the call, it exits
\* some time after the terminate signal, or it ignores that signal
Sidecars == {"exited", "obedient", "stubborn"}
TrackedProcesses == SeqsUpTo(Sidecars, MaxSidecars)

\* environment.py:441: seconds process.wait is given after terminate
TerminateGrace == 5

InitCleanup ==
    /\ BenchIdle /\ ExecIdle /\ AgentIdle /\ LoadIdle /\ RetryIdle /\ EvalIdle
    /\ InstallIdle /\ TrackIdle /\ ExtractIdle
    /\ c_processes \in TrackedProcesses
    /\ c_tracked = [k \in DOMAIN c_processes |-> k]
    /\ c_running = [k \in DOMAIN c_processes |-> c_processes[k] # "exited"]
    /\ c_calls = [k \in DOMAIN c_processes |-> <<>>]
    /\ c_index = 1 /\ c_pc = "loop" /\ c_clock = 0

CleanupUnchanged ==
    /\ UNCHANGED c_processes
    /\ UNCHANGED <<bench_vars, local_vars, env_vars, hist_vars, exec_vars,
                   agent_vars, load_vars, retry_vars, eval_vars, install_vars,
                   track_vars, extract_vars>>

\* a call of terminate() or kill() on the process at hand, with the second
\* of the wait at which it is made and whether the process is running then
Called(name) ==
    c_calls' = [c_calls EXCEPT ![c_index] =
                   Append(@, [call |-> name, at |-> c_clock,
                              running |-> c_running[c_index]])]

\* the kill that does not wait for the grace to run out
TerminateTimedOutAtOnce == TRUE

\* environment.py:441-442: process.wait(timeout=5) raises TimeoutExpired
TerminateTimedOut == c_clock = TerminateGrace

\* environment.py:431-432: poll() finds that the process has exited
PollExited ==
    /\ c_pc = "loop"
    /\ c_index <= Len(c_processes)
    /\ ~c_running[c_index]
    /\ c_index' = c_index + 1
    /\ UNCHANGED <<c_tracked, c_running, c_calls, c_pc, c_clock>>
    /\ CleanupUnchanged

\* environment.py:431-441: the process is running and terminate() is called
Terminate ==
    /\ c_pc = "loop"
    /\ c_index <= Len(c_processes)
    /\ c_running[c_index]
    /\ Called("terminate")
    /\ c_clock' = 0
    /\ c_pc' = "wait"
    /\ UNCHANGED <<c_tracked, c_running, c_index>>
    /\ CleanupUnchanged

\* environment.py:449-450: terminate() raises, which is logged
TerminateRaises ==
    /\ c_pc = "loop"
    /\ c_index <= Len(c_processes)
    /\ c_running[c_index]
    /\ Called("terminate")
    /\ c_index' = c_index + 1
    /\ UNCHANGED <<c_tracked, c_running, c_pc, c_clock>>
    /\ CleanupUnchanged

\* the side-car exits on the terminate signal
SidecarObeys ==
    /\ c_pc = "wait"
    /\ c_running[c_index]
    /\ c_processes[c_index] = "obedient"
    /\ c_running' = [c_running EXCEPT ![c_index] = FALSE]
    /\ UNCHANGED <<c_tracked, c_calls, c_index, c_pc, c_clock>>
    /\ CleanupUnchanged

\* a second of process.wait(timeout=5) passes
CleanupTick ==
    /\ c_pc = "wait"
    /\ c_running[c_index]
    /\ c_clock < TerminateGrace
    /\ c_clock' = c_clock + 1
    /\ UNCHANGED <<c_tracked, c_running, c_calls, c_index, c_pc>>
    /\ CleanupUnchanged

\* environment.py:441: the wait returns, the process has exited
TerminateWaitReturns ==
    /\ c_pc = "wait"
    /\ ~c_running[c_index]
    /\ c_index' = c_index + 1
    /\ c_pc' = "loop"
    /\ UNCHANGED <<c_tracked, c_running, c_calls, c_clock>>
    /\ CleanupUnchanged

\* environment.py:442-448: the wait times out; kill() and a wait without a
\* timeout, or an exception of either, which is logged
Kill ==
    /\ c_pc = "wait"
    /\ c_running[c_index]
    /\ TerminateTimedOut
    /\ Called("kill")
    /\ \/ c_running' = [c_running EXCEPT ![c_index] = FALSE]
       \/ UNCHANGED c_running
    /\ c_index' = c_index + 1
    /\ c_pc' = "loop"
    /\ UNCHANGED <<c_tracked, c_clock>>
    /\ CleanupUnchanged

\* environment.py:435: running_processes.clear() and the return
CleanupProcessesReturns ==
    /\ c_pc = "loop"
    /\ c_index > Len(c_processes)
    /\ c_tracked' = <<>>
    /\ c_pc' = "returned"
    /\ UNCHANGED <<c_running, c_calls, c_index, c_clock>>
    /\ CleanupUnchanged

NextCleanup ==
    \/ PollExited \/ Terminate \/ TerminateRaises \/ SidecarObeys
    \/ CleanupTick \/ TerminateWaitReturns \/ Kill \/ CleanupProcessesReturns

SpecCleanup == InitCleanup /\ [][NextCleanup]_vars

\* ------------------------------------- CommandTracker
\* The commands the agent loop runs through TrackingEnvironment.execute and
\* the list of OS packages CommandTracker.apt_packages derives from them.
\* A command is the sequence of the words of its text.

AgentCommands ==
    { <<"apt-get", "install", "-y", "foo">>,
      <<"sudo", "apt", "install", "bar", "&&", "pip", "install", "foo">>,
      <<"apt-get", "install", "-y", "foo", "|", "tee", "log">>,
      <<"apt-get", "update">> }

\* the exit codes of a command that ran to its end
ReturnCodes == {0, 1}

\* mini_swe_manager.py:47: the separators re.split cuts a command at
Separators == {"&&", ";", "||"}

\* the words of a command up to its first separator, and those after it
FirstSubcommand(words) ==
    IF \E k \in DOMAIN words : words[k] \in Separators
    THEN SubSeq(words, 1,
                (CHOOSE k \in DOMAIN words :
                    /\ words[k] \in Separators
                    /\ \A j \in 1..(k - 1) : words[j] \notin Separators) - 1)
    ELSE words

RestAfterFirst(words) ==
    IF \E k \in DOMAIN words : words[k] \in Separators
    THEN SubSeq(words, Len(FirstSubcommand(words)) + 2, Len(words))
    ELSE <<>>

\* a word that startswith("-")
IsFlag(token) == token \in {"-y"}

\* mini_swe_manager.py:60-84: the words after the first "apt" or "apt-get"
\* that is followed by "install", flags left out
_parse_apt_tokens(tokens) ==
    IF \E k \in DOMAIN tokens : tokens[k] \in {"apt", "apt-get"}
    THEN LET idx == CHOOSE k \in DOMAIN tokens :
                        /\ tokens[k] \in {"apt", "apt-get"}
                        /\ \A j \in 1..(k - 1) : tokens[j] \notin {"apt", "apt-get"}
         IN  IF idx + 1 <= Len(tokens) /\ tokens[idx + 1] = "install"
             THEN {tokens[k] : k \in {j \in (idx + 2)..Len(tokens) :
                                         ~IsFlag(tokens[j])}}
             ELSE {}
    ELSE {}

\* mini_swe_manager.py:45-58
RECURSIVE _extract_apt_packages_from_command(_)
_extract_apt_packages_from_command(command) ==
    IF command = <<>> THEN {}
    ELSE _parse_apt_tokens(FirstSubcommand(command))
            \cup _extract_apt_packages_from_command(RestAfterFirst(command))

\* mini_swe_manager.py:37-43: the packages of the entries with returncode 0
\* (LocalEnvironment.execute never leaves the returncode out); sorted() makes
\* a list of the set
apt_packages(history) ==
    UNION {_extract_apt_packages_from_command(history[k][1]) :
              k \in {j \in DOMAIN history : history[j][2] = 0}}

InitTrack ==
    /\ BenchIdle /\ ExecIdle /\ AgentIdle /\ LoadIdle /\ RetryIdle /\ EvalIdle
    /\ InstallIdle /\ CleanupIdle /\ ExtractIdle
    /\ _history = <<>> /\ executed = <<>> /\ t_pc = "run"
    /\ detected_apt_packages = {}

TrackUnchanged ==
    UNCHANGED <<bench_vars, local_vars, env_vars, hist_vars, exec_vars,
                agent_vars, load_vars, retry_vars, eval_vars, install_vars,
                cleanup_vars, extract_vars>>

\* mini_swe_manager.py:94-99 and local.py:25-39: TrackingEnvironment.execute
\* records the command and its returncode once LocalEnvironment.execute has
\* returned
ExecuteReturns ==
    /\ t_pc = "run"
    /\ Len(executed) < MaxCommands
    /\ \E command \in AgentCommands, returncode \in ReturnCodes :
          /\ executed' = Append(executed, command)
          /\ _history' = Append(_history, <<command, returncode>>)
    /\ UNCHANGED <<t_pc, detected_apt_packages>>
    /\ TrackUnchanged

\* mini_swe_manager.py:95 and local.py:27-38, default.py:131-132: subprocess.run
\* raises TimeoutExpired out of super().execute, record is not reached, and
\* the agent loop goes on with its next step
ExecuteTimesOut ==
    /\ t_pc = "run"
    /\ Len(executed) < MaxCommands
    /\ \E command \in AgentCommands :
          executed' = Append(executed, command)
    /\ UNCHANGED <<_history, t_pc, detected_apt_packages>>
    /\ TrackUnchanged

\* mini_swe_manager.py:160: agent.run has returned
AgentReturns ==
    /\ t_pc = "run"
    /\ detected_apt_packages' = apt_packages(_history)
    /\ t_pc' = "returned"
    /\ UNCHANGED <<_history, executed>>
    /\ TrackUnchanged

NextTrack == ExecuteReturns \/ ExecuteTimesOut \/ AgentReturns

SpecTrack == InitTrack /\ [][NextTrack]_vars

\* ------------------------------------- CodeExtractor.extract_pip_packages
\* One call of extract_pip_packages on a model response.  The response is
\* the sequence of its fenced blocks, each with the tag after its opening
\* fence ("" for none) and its lines, a line being the sequence of its words.

BlockTags == {"bash", "", "python"}
BlockBodies ==
    { << <<"pip", "install", "numpy">> >>,
      << <<"pip", "install", "-q", "pandas", "numpy">> >>,
      << <<"pip", "install", "--upgrade", "pip">> >>,
      << <<"echo", "hi">>, <<"pip", "install", "pandas", "&&", "echo", "ok">> >> }
ModelResponses == SeqsUpTo([tag : BlockTags, body : BlockBodies], MaxBlocks)

\* code_extraction.py:9-10: the blocks bash_block_pattern finds are those
\* tagged bash, sh or shell, whatever the case, and those without a tag
bash_blocks(resp) ==
    SelectSeq(resp, LAMBDA block : block.tag \in {"bash", "sh", "shell", ""})

\* "pip install" is in the line, at word k
HasPipInstallAt(line, k) ==
    /\ k + 1 <= Len(line)
    /\ line[k] = "pip" /\ line[k + 1] = "install"

\* code_extraction.py:19: "--upgrade pip" is in the line
IsPipUpgrade(line) ==
    \E k \in 1..(Len(line) - 1) : line[k] = "--upgrade" /\ line[k + 1] = "pip"

\* code_extraction.py:23-25: group 1 of pip_match, the words after the first
\* "pip install" up to the end of the line or the first "&&" or ";"
package_text(line) ==
    LET start == CHOOSE k \in DOMAIN line :
                     /\ HasPipInstallAt(line, k)
                     /\ \A j \in 1..(k - 1) : ~HasPipInstallAt(line, j)
        after == SubSeq(line, start + 2, Len(line))
        stops == {k \in DOMAIN after : after[k] \in {"&&", ";"}}
    IN  IF stops = {} THEN after
        ELSE SubSeq(after, 1, (CHOOSE k \in stops : \A j \in stops : k <= j) - 1)

\* the words that start with "-"
DashWords == {"-q", "--upgrade"}

\* code_extraction.py:27-28: flags and the word pip are left out
package_list(line) ==
    SelectSeq(package_text(line),
              LAMBDA pkg : pkg \notin DashWords /\ pkg # "pip")

\* code_extraction.py:15-29: the packages of the lines of one block
RECURSIVE BlockPackages(_)
BlockPackages(body) ==
    IF body = <<>> THEN <<>>
    ELSE LET line == Head(body)
         IN  (IF /\ \E k \in DOMAIN line : HasPipInstallAt(line, k)
                 /\ ~IsPipUpgrade(line)
                 /\ package_text(line) # <<>>
              THEN package_list(line) ELSE <<>>)
                 \o BlockPackages(Tail(body))

\* code_extraction.py:12-31: packages.extend(package_list) for every line of
\* every block; nothing is removed from the list
RECURSIVE ExtendAll(_)
ExtendAll(blocks) ==
    IF blocks = <<>> THEN <<>>
    ELSE BlockPackages(Head(blocks).body) \o ExtendAll(Tail(blocks))

\* code_extraction.py:7-31
extract_pip_packages(resp) ==
    ExtendAll(bash_blocks(resp))

InitExtract ==
    /\ BenchIdle /\ ExecIdle /\ AgentIdle /\ LoadIdle /\ RetryIdle /\ EvalIdle
    /\ InstallIdle /\ CleanupIdle /\ TrackIdle
    /\ response \in ModelResponses
    /\ pip_packages = <<>> /\ p_pc = "extract_pip_packages"

\* code_extraction.py:7-31: the call returns the list
ExtractReturns ==
    /\ p_pc = "extract_pip_packages"
    /\ pip_packages' = extract_pip_packages(response)
    /\ p_pc' = "returned"
    /\ UNCHANGED response
    /\ UNCHANGED <<bench_vars, local_vars, env_vars, hist_vars, exec_vars,
                   agent_vars, load_vars, retry_vars, eval_vars, install_vars,
                   cleanup_vars, track_vars>>

NextExtract == ExtractReturns

SpecExtract == InitExtract /\ [][NextExtract]_vars

\* ------------------------------------------------------------------ claims
MiniSweBackends == {"mini-swe", "mini-swe-iter"}

\* position of an event in the history of the current task, 0 when absent
Pos(e) == IF \E k \in 1..Len(events) : events[k] = e
          THEN CHOOSE k \in 1..Len(events) : events[k] = e
          ELSE 0

Happened(e) == Pos(e) > 0

\* C1: once run_single_task has returned (or raised), the workspace directory
\* created for its task no longer exists.
C1_WorkspaceGoneOnReturn ==
    pc = "leave" => i \notin workspaces

\* C2: once run_single_task has returned, the side-car process started for
\* its task is no longer alive.
C2_NoProcessAliveOnReturn ==
    pc = "leave" => i \notin alive

\* C3: run_benchmark returns one record per selected task, in processing order,
\* each with a Boolean success flag and a non-empty task_name.
C3_OneRecordPerTask ==
    pc = "returned" =>
        /\ Len(results) = Len(tasks)
        /\ \A k \in 1..Len(results) :
              /\ results[k].task_name = tasks[k]
              /\ results[k].task_name # ""
              /\ results[k].success \in BOOLEAN

C3_Witness ==
    /\ pc = "returned"
    /\ Len(results) = 2
    /\ results[1].task_name # results[2].task_name
    /\ results[1].error[1] = "Critical error: "
    /\ results[2].error[1] = "Unexpected error: "

\* C4: when a stage of the task has raised, leaving run_single_task appends a
\* record with success = False and a non-empty error string, and the loop of
\* run_benchmark goes on: nothing propagates.
C4_ErrorsBecomeFailedRecords ==
    [][(pc = "leave" /\ pc' # "leave" /\ raised) =>
          /\ pc' = "loop"
          /\ Len(results') = Len(results) + 1
          /\ results'[Len(results')].success = FALSE
          /\ results'[Len(results')].error # <<>>]_vars

C4_Witness ==
    /\ pc = "loop"
    /\ Len(results) = 2
    /\ results[1].error = <<"Unexpected error: ">>
    /\ results[2].error = <<"Critical error: ">>

\* C5: with an agent backend a declared side-car is started only after
\* produce_submission has returned; with any other backend it is started
\* during setup_task_environment, before inference begins.
C5_SidecarScheduling ==
    /\ (backend \in MiniSweBackends /\ sidecar_started_at # NotStarted) =>
          /\ Happened("sidecar_started_deferred")
          /\ ~Happened("sidecar_started")
          /\ 0 < Pos("submission_produced")
          /\ Pos("submission_produced") < Pos("sidecar_started_deferred")
    /\ (backend \notin MiniSweBackends /\ sidecar_started_at # NotStarted) =>
          /\ Happened("sidecar_started")
          /\ ~Happened("sidecar_started_deferred")
          /\ Happened("submission_produced") =>
                Pos("sidecar_started") < Pos("submission_produced")
    /\ (backend \notin MiniSweBackends /\ task.task_script = "present"
            /\ pc = "produce_submission") =>
          sidecar_started_at # NotStarted

C5_Witness ==
    /\ backend = "mini-swe-iter"
    /\ Happened("sidecar_started_deferred")
    /\ pc = "install_apt"

\* C6: when the wait gate has released, at least script_wait_time seconds have
\* passed since the side-car process was started.
C6_WaitMeasuredFromSidecarStart ==
    (pc = "execute_script" /\ sidecar_started_at # NotStarted) =>
        now - sidecar_started_at >= task.script_wait_time

Rank(e) ==
    CASE e = "workspace_created" -> 1
      [] e = "sidecar_started" -> 2
      [] e = "submission_produced" -> 3
      [] e = "sidecar_started_deferred" -> 4
      [] e = "packages_installed" -> 5
      [] e = "wait_gate_released" -> 6
      [] e = "submission_executed" -> 7
      [] e = "evaluator_run" -> 8
      [] e = "result_recorded" -> 9
      [] e = "sidecar_stopped" -> 10
      [] e = "workspace_deleted" -> 11

\* C8: the events of one task occur in the lifecycle order; no side-car is
\* started once the wait gate has released.
C8_LifecycleOrder ==
    \A j, k \in 1..Len(events) : j < k => Rank(events[j]) < Rank(events[k])

C8_Witness ==
    events = <<"workspace_created", "submission_produced",
               "sidecar_started_deferred", "packages_installed",
               "wait_gate_released", "result_recorded", "sidecar_stopped",
               "workspace_deleted">>

\* C9: when some package has failed to install, the orchestrator still goes
\* through the wait gate and runs the submission.
C9_InstallFailureStillExecutes ==
    [][(pc = "execute_script" /\ pc' # "execute_script" /\ failed # NoInstall) =>
          Rank(events'[Len(events')]) = 7]_vars

\* C10: execute returns no later than the timeout plus the grace periods
\* (5 s and 2 s of output collection) after the child was spawned, whatever
\* the child writes.
C10_WallClockDeadline ==
    x_pc = "returned" =>
        elapsed <= (x_timeout + CommunicateGrace + SecondGrace) * PollsPerSecond

\* C11: when execute returns the timeout result, the stdout text captured
\* before the child was stopped is in that result.
C11_TimeoutKeepsOutput ==
    (x_pc = "returned" /\ x_result[1].stderr = <<"Script execution timed out">>) =>
        x_result[1].stdout = stdout_lines

\* C12: every kill signal sent to the child comes after a terminate signal
\* sent to it.
C12_TerminateBeforeKill ==
    \A k \in 1..Len(signals) :
        signals[k] = "kill" => \E j \in 1..(k - 1) : signals[j] = "terminate"

\* C13: the reader is never blocked in readline on one pipe while the child
\* is blocked writing to the other, full, pipe.
C13_NoDeadlock ==
    ~(x_pc = "readline" /\ child = "running" /\ child_blocked)

\* C14: when run_script returns without a child having been spawned (missing
\* interpreter or script, permission error, spawn failure), the result has
\* success = False and a non-empty error text in stderr.
C14_SpawnFailureIsFailedResult ==
    (x_pc = "returned" /\ child = "none") =>
        /\ Len(x_result) = 1
        /\ x_result[1].success = FALSE
        /\ x_result[1].stderr # <<>>

C14_Witness ==
    /\ x_pc = "returned"
    /\ child = "none"
    /\ x_platform = "unix"
    /\ x_result = _handle_execution_error

\* C15: the execution stage builds an evaluator whose timeout is the task's
\* script_timeout and runs the submission under it: leaving the stage, no
\* exception has been raised and the submission has been executed.
C15_ExecutesUnderTaskTimeout ==
    [][(pc = "execute_script" /\ pc' # "execute_script") =>
          /\ ~raised'
          /\ pc' # "except"]_vars

\* C16: with step_limit > 0 a run never issues more than step_limit model
\* queries, and a step that starts with the step count at step_limit, or the
\* cost at cost_limit, ends the run with LimitsExceeded without a query.
C16_BudgetCheckedBeforeQuery ==
    /\ [](step_limit > 0 => queries <= step_limit)
    /\ [][(/\ a_pc = "step"
           /\ \/ 0 < step_limit /\ step_limit <= n_calls
              \/ 0 < cost_limit /\ cost_limit <= cost) =>
              /\ queries' = queries
              /\ a_pc' = "returned"
              /\ exit_status' = "LimitsExceeded"]_vars

C16_Witness ==
    /\ a_pc = "returned"
    /\ exit_status = "LimitsExceeded"
    /\ step_limit = 2
    /\ queries = 2

\* C17: with a step budget or a cost budget configured, agent.run eventually
\* ends: it returns with status Submitted or LimitsExceeded, or an exception of
\* the model or the sandbox leaves it.
C17_AgentRunTerminates ==
    (step_limit > 0 \/ cost_limit > 0) =>
        <>(\/ a_pc = "returned" /\ exit_status \in {"Submitted", "LimitsExceeded"}
           \/ a_pc = "raised")

\* C18: a turn that ends with the format-error correction leaves the count
\* compared against step_limit and the count compared against
\* minimum_iterations as they were.
C18_FormatErrorKeepsCounters ==
    [][(/\ a_pc = "step"
        /\ a_pc' = "step"
        /\ messages'[Len(messages')].content = "format_error") =>
           /\ n_calls' = n_calls
           /\ _step_index' = _step_index]_vars

\* C19: after the system and instance messages no two consecutive messages of
\* the transcript have the same role.
C19_TranscriptAlternates ==
    \A k \in 3..Len(messages) : messages[k].role # messages[k - 1].role

\* C20: in the default agent a run has status Submitted only after a command
\* was executed, and after a command was executed: if the first non-blank line
\* of its output is, trimmed and in upper case, a completion marker, the run
\* has returned Submitted with the lines after it as payload; otherwise the
\* run goes on and the last message is the observation.
C20_SubmittedOnSentinel ==
    (agent_class = "DefaultAgent" /\ a_pc \in {"step", "returned"}) =>
        /\ exit_status = "Submitted" => last_output # <<>>
        /\ last_output # <<>> =>
              LET out == last_output[1]
                  NonBlank == {k \in 1..Len(out) : Strip(out[k]) # ""}
                  first == CHOOSE k \in NonBlank : \A j \in NonBlank : k <= j
                  sentinel ==
                      /\ NonBlank # {}
                      /\ Upper(Strip(out[first])) \in
                            {"MINI_SWE_AGENT_FINAL_OUTPUT",
                             "COMPLETE_TASK_AND_SUBMIT_FINAL_OUTPUT", "END"}
              IN  IF sentinel
                  THEN /\ a_pc = "returned"
                       /\ exit_status = "Submitted"
                       /\ a_result = SubSeq(out, first + 1, Len(out))
                  ELSE /\ a_pc = "step"
                       /\ exit_status = None
                       /\ messages[Len(messages)] =
                             [role |-> "user", content |-> "observation"]

C20_Witness ==
    /\ agent_class = "DefaultAgent"
    /\ a_pc = "returned"
    /\ exit_status = "Submitted"
    /\ last_output = << <<"", " end ">> >>
    /\ a_result = <<>>
    /\ n_calls = 2

\* C21: an iterative run that has returned Submitted has a step counter of at
\* least minimum_iterations; a run that has returned with the counter below
\* minimum_iterations has status LimitsExceeded; and after a command whose
\* output starts with a completion marker the run has returned Submitted when
\* the counter has reached minimum_iterations, and otherwise goes on with the
\* early-submission message as last message.
C21_NoSubmissionBelowMinimum ==
    (agent_class = "IterativeAgent" /\ a_pc \in {"step", "returned"}) =>
        /\ (a_pc = "returned" /\ exit_status = "Submitted") =>
              _step_index >= minimum_iterations
        /\ (a_pc = "returned" /\ _step_index < minimum_iterations) =>
              exit_status = "LimitsExceeded"
        /\ (last_output # <<>> /\ IsFinished(last_output[1])) =>
              IF _step_index >= minimum_iterations
              THEN a_pc = "returned" /\ exit_status = "Submitted"
              ELSE /\ a_pc = "step"
                   /\ messages[Len(messages)] =
                         [role |-> "user", content |-> "early_submission"]

C21_Witness ==
    /\ agent_class = "IterativeAgent"
    /\ minimum_iterations = 2
    /\ a_pc = "returned"
    /\ exit_status = "Submitted"
    /\ _step_index = 2
    /\ \E k \in 1..Len(messages) : messages[k].content = "early_submission"

\* C22: after a command that ran past the timeout of the environment the run
\* has not ended: the timeout message is the last message, a user message, and
\* the loop is at its next step.
C22_TimeoutContinues ==
    timed_out =>
        /\ a_pc = "step"
        /\ messages[Len(messages)] = [role |-> "user", content |-> "timeout"]

\* the task in progress has produced no Submission and has gone none of the
\* steps that follow one
NothingAfterInference ==
    /\ submission = NoSubmission
    /\ installed = NoInstall
    /\ ~Happened("submission_produced")
    /\ ~Happened("sidecar_started_deferred")
    /\ ~Happened("packages_installed")
    /\ pc \notin {"submission_artifacts", "no_script", "start_deferred",
                  "install_apt", "install_pip", "wait_gate", "execute_script"}

\* the step appends the result of the task, a failure carrying an error string
FailureRecorded ==
    /\ Len(results') = Len(results) + 1
    /\ results'[Len(results')].success = FALSE
    /\ results'[Len(results')].error # <<>>

\* C24: when the agent's run has ended with LimitsExceeded, the task has no
\* Submission, installs no package, never reaches the execution of a script
\* and never starts a deferred side-car, and the result it ends with is a
\* failure that carries an error string.
C24_LimitsExceededFailsTask ==
    /\ [](inference = "LimitsExceeded" => NothingAfterInference)
    /\ [][(inference = "LimitsExceeded" /\ pc = "leave") => FailureRecorded]_vars

C24_Witness ==
    /\ inference = "LimitsExceeded"
    /\ backend \in MiniSweBackends
    /\ defer_task_script /\ task.task_script = "present"
    /\ pc = "leave"
    /\ ret # <<>> /\ ret[1].success = FALSE
    /\ sidecar_started_at = NotStarted

\* C26: when the single-shot response holds no python block, the task has no
\* Submission, installs no package and never reaches the execution of a
\* script, and the result it ends with is a failure that carries an error
\* string.
C26_NoScriptBlockFailsTask ==
    /\ [](inference = "absent" =>
            /\ backend = "openai"
            /\ NothingAfterInference
            /\ pc = "except" => exc = <<<<"No Python script found in LLM response">>>>)
    /\ [][(inference = "absent" /\ pc = "leave") => FailureRecorded]_vars

C26_Witness ==
    /\ inference = "absent"
    /\ pc = "leave"
    /\ ret = <<UnexpectedErrorResult(Stem,
                  <<"No Python script found in LLM response">>)>>

\* the part of the file system that is the workspace, and the file that the
\* first line of the payload names
RealWorkspace == resolve(<<>>, workspace)
Inside(path) == \E k \in 0..Len(path) : SubSeq(path, 1, k) = RealWorkspace

\* C23: _load_script_content returns only when the first non-blank line of
\* the payload is a path that is not absolute and resolves to a regular file
\* inside the workspace, and that file is the one it has read; with no such
\* line, an absolute path, a path resolving outside the workspace, a missing
\* file or a directory it raises, and it never reads a file outside the
\* workspace.
C23_ScriptPathInsideWorkspace ==
    LET named == NonBlankLines(script_block) IN
    /\ l_pc = "returned" =>
          /\ named # <<>>
          /\ ~named[1].root \/ l_platform = "nt"
          /\ l_read = resolved_path
          /\ l_read \in Files
          /\ Inside(l_read)
    /\ l_pc \in {"returned", "raised"} =>
          /\ named = <<>> => l_pc = "raised"
          /\ (named # <<>> /\ named[1].root /\ l_platform = "posix") => l_pc = "raised"
          /\ (named # <<>> /\ ~Inside(resolved_path)) => l_pc = "raised"
          /\ (named # <<>> /\ resolved_path \notin Files) => l_pc = "raised"
    /\ l_read # None => Inside(l_read)

C23_Witness ==
    /\ l_pc = "returned"
    /\ Len(script_block) = 2
    /\ script_block[1] = BlankLine
    /\ script_block[2] = [root |-> FALSE, parts |-> <<"d", "..", "f">>]
    /\ l_read = <<"w", "f">>

\* C25: _prompt_for_solution calls the model at most max_retries + 1 times;
\* every call but the last has failed; it has returned exactly when the last
\* call answered; it has slept once after each failed call that was followed
\* by another, the k-th sleep lasting base_delay * 2^(k-1) plus a jitter of at
\* most a second; and it has raised exactly when max_retries + 1 calls have
\* failed, the error being that of the last call.
C25_RetriesWithBackoff ==
    LET calls == Len(outcomes) IN
    /\ calls <= max_retries + 1
    /\ \A k \in 1..(calls - 1) : outcomes[k] # "ok"
    /\ r_pc = "returned" <=> (calls > 0 /\ outcomes[calls] = "ok")
    /\ r_pc = "raised" <=>
          (calls = max_retries + 1 /\ outcomes[calls] # "ok")
    /\ r_pc = "raised" => r_raised = outcomes[calls]
    /\ r_pc = "invoke" => Len(delays) = calls
    /\ r_pc \in {"returned", "raised"} => Len(delays) = calls - 1
    /\ \A k \in 1..Len(delays) :
          delays[k] - base_delay * (2 ^ (k - 1)) \in 0..1

C25_Witness ==
    /\ max_retries = 3 /\ base_delay = 2
    /\ r_pc = "raised"
    /\ outcomes = <<"e1", "e1", "e1", "e2">>
    /\ r_raised = "e2"
    /\ delays = <<2, 5, 8>>

\* the first line of the output that is ANSWER= followed by a number, signed
\* or not, or 0
FirstNumberLine ==
    LET hits == {k \in 1..Len(output) :
                    /\ output[k].tag = "answer"
                    /\ output[k].text \in Unsigned \cup Negative}
    IN  IF hits = {} THEN 0 ELSE CHOOSE k \in hits : \A j \in hits : k <= j

NumberWritten(text) ==
    CASE text = "0" -> 0 [] text = "1" -> 1 [] text = "2" -> 2
      [] text = "-1" -> -1 [] text = "-2" -> -2

\* C27: the evaluation of a numerical task is a success exactly when the
\* output has a line ANSWER=<number> and the number of the first such line is
\* the expected one, whatever its sign and whatever lines come before it.
C27_NumericalPassesIffAnswerMatches ==
    (e_pc = "returned" /\ result_type = "numerical") =>
        (evaluation.success <=>
            /\ FirstNumberLine # 0
            /\ NumberWritten(output[FirstNumberLine].text) = expected_result)

\* C28: the evaluation of a classification task is a success exactly when the
\* two files have the same number of rows, at least one, and the share of
\* rows that agree is at least the threshold, for every threshold of [0, 1].
C28_ClassificationPassesIffScoreReachesThreshold ==
    (e_pc = "returned" /\ result_type = "classification_match") =>
        (evaluation.success <=>
            /\ Len(result_rows) = Len(truth_rows)
            /\ Len(result_rows) > 0
            /\ Cardinality({k \in 1..Len(result_rows) : result_rows[k] = truth_rows[k]})
                  * threshold.den >= threshold.num * Len(result_rows))

\* C29: the evaluation of a script_run task is a success exactly when the
\* checker and its interpreter exist, the checker ran to its end and what it
\* printed is TRUE with nothing but white space around it.
C29_CheckerPassesIffStdoutIsTrue ==
    (e_pc = "returned" /\ result_type = "script_run") =>
        (evaluation.success <=>
            /\ checker.script_exists /\ checker.python_exists
            /\ checker.run = "exited"
            /\ checker.stdout \in {"TRUE", " TRUE\n"})

C29_Witness ==
    /\ e_pc = "returned" /\ result_type = "script_run"
    /\ evaluation.success
    /\ checker.stdout = " TRUE\n"
    /\ checker.returncode = 1

\* C30: the evaluation of a task with an expected string is a success exactly
\* when the value of the first ANSWER= line, bare or quoted, is the expected
\* string, compared with or without regard to case as the task says.
C30_StringPassesIffAnswerMatches ==
    (e_pc = "returned" /\ result_type = "string_answer") =>
        (evaluation.success <=>
            StringAnswerEvaluate(output, expected_string, case_sensitive))

\* occurrences of x in the sequence s
Occurrences(s, x) == Cardinality({k \in DOMAIN s : s[k] = x})

\* C31: an install batch attempts every package of its list exactly once and
\* in list order, every attempted package is in exactly one of the two lists
\* when the batch returns, and whatever happens to one package the later
\* packages of the list are eventually attempted.
C31_EachPackageAttemptedOnce ==
    /\ [](n_pc = "returned" =>
            /\ \A p \in Range(packages) :
                  /\ Occurrences(attempted, p) = 1
                  /\ Occurrences(successfully_installed, p)
                        + Occurrences(failed_packages, p) = 1
            /\ \A j, k \in DOMAIN attempted :
                  j < k => \E a, b \in DOMAIN packages :
                      a < b /\ packages[a] = attempted[j]
                            /\ packages[b] = attempted[k])
    /\ \A k \in 1..(MaxBatch + 1) :
          (Len(packages) >= k) ~> (Len(attempted) >= k)

\* C32: installing one package never takes longer than the timeout of the
\* wait plus the grace given to the kill, whatever the installer does.
C32_SingleInstallBounded ==
    n_clock <= DEFAULT_TIMEOUT_SECONDS + STREAM_TIMEOUT_SECONDS

\* C33: the entry of the task record never reports as installed a package
\* whose installation failed.
C33_FailedNeverReportedInstalled ==
    n_pc = "returned" =>
        \A p \in Range(failed_packages) :
            ~(installation[1].success
                  /\ p \in Range(installation[1].packages))

\* the names of the calls made on a tracked process
CallNames(k) == [j \in DOMAIN c_calls[k] |-> c_calls[k][j].call]

\* C34: cleanup_processes calls terminate on each tracked side-car that is
\* still running and on no other, waits at most 5 seconds, and calls kill only
\* when those 5 seconds have run out with the process still running; when it
\* returns, the list of tracked processes is empty and every side-car that
\* was running has been dealt with, whatever its terminate or kill raised.
C34_TerminateWaitKill ==
    /\ c_clock <= TerminateGrace
    /\ \A k \in DOMAIN c_calls :
          /\ CallNames(k) \in {<<>>, <<"terminate">>, <<"terminate", "kill">>}
          /\ c_processes[k] = "exited" => c_calls[k] = <<>>
          /\ Len(c_calls[k]) = 2 =>
                 c_calls[k][2].at = TerminateGrace /\ c_calls[k][2].running
    /\ c_pc = "returned" =>
          /\ c_tracked = <<>>
          /\ \A k \in DOMAIN c_calls :
                 c_processes[k] # "exited" =>
                     c_calls[k] # <<>> /\ c_calls[k][1].call = "terminate"

C34_Witness ==
    /\ c_pc = "returned"
    /\ \E j, k \in DOMAIN c_calls :
          /\ j < k
          /\ CallNames(j) = <<"terminate", "kill">>
          /\ c_processes[k] = "obedient" /\ CallNames(k) = <<"terminate">>
          /\ ~c_running[k]

\* C35: when the deletion of the workspace fails in the finally block of
\* run_single_task, the result about to be returned (or the exception on its
\* way out) is the one a successful deletion would have left.
C35_DeletionFailureKeepsResult ==
    [][(pc = "rmtree" /\ pc' # pc /\ temp_dir \in workspaces') =>
           (ret' = ret /\ exc' = exc /\ pc' = "leave")]_vars

C35_Witness ==
    /\ pc = "leave"
    /\ temp_dir # NoDir /\ temp_dir \in workspaces
    /\ ret # <<>> /\ exc = <<>>

\* C36: a task whose submission has been run and has failed (non-zero exit
\* or timeout) gets the result of _handle_execution_error, "Script execution
\* failed: ...", without an evaluation.  The execution stage is entered right
\* after the wait gate, so the result of a task that went through the gate
\* and was not evaluated is that one.
C36_FailedRunIsExecutionError ==
    (pc = "leave" /\ ret # <<>> /\ Happened("wait_gate_released")) =>
        /\ ret[1].success = FALSE
        /\ ret[1].error[1] = "Script execution failed: "

\* the words that name packages, and the shell operators that end a command
PackageNames == {"foo", "bar"}
ControlOperators == {"&&", ";", "||", "|"}

\* the package arguments of the apt and apt-get install commands of a shell
\* command line
PackageArguments(words) ==
    {words[k] : k \in {j \in DOMAIN words :
        /\ words[j] \in PackageNames
        /\ \E a \in 1..(j - 2) :
              /\ words[a] \in {"apt", "apt-get"}
              /\ words[a + 1] = "install"
              /\ \A b \in a..j : words[b] \notin ControlOperators}}

\* C37: every command run through the tracking environment has exactly one
\* entry in the history of the tracker, in the order of execution, whatever
\* came of it; and the derived list of OS packages holds exactly the package
\* arguments of the apt / apt-get install commands of the entries with exit
\* code 0.
C37_HistoryAndAptPackages ==
    /\ Len(_history) = Len(executed)
    /\ \A k \in DOMAIN _history : _history[k][1] = executed[k]
    /\ t_pc = "returned" =>
          detected_apt_packages =
              UNION {PackageArguments(_history[k][1]) :
                        k \in {j \in DOMAIN _history : _history[j][2] = 0}}

\* the list with every package kept at its first occurrence only
RECURSIVE FirstOccurrences(_)
FirstOccurrences(s) ==
    IF s = <<>> THEN <<>>
    ELSE LET init == FirstOccurrences(SubSeq(s, 1, Len(s) - 1))
         IN  IF \E k \in DOMAIN init : init[k] = s[Len(s)]
             THEN init ELSE Append(init, s[Len(s)])

\* the blocks of a response that carry a shell tag
ShellTagged(resp) ==
    SelectSeq(resp, LAMBDA block : block.tag \in {"bash", "sh", "shell"})

\* C38: the list extract_pip_packages returns holds the package words of the
\* install commands of the shell-tagged blocks, flags and the word pip left
\* out, each package once and in the order of its first occurrence; for an
\* empty response it is empty.
C38_PipPackagesUnionOnce ==
    p_pc = "returned" =>
        /\ \A k \in DOMAIN pip_packages :
              Occurrences(pip_packages, pip_packages[k]) = 1
        /\ pip_packages = FirstOccurrences(ExtendAll(ShellTagged(response)))
        /\ response = <<>> => pip_packages = <<>>

\* C39: once the task has left run_single_task, the scratch workspace that
\* produce_submission created for the agent no longer exists.
C39_AgentWorkspaceGone ==
    pc = "leave" => agent_workspace # "exists"

\* C40: when run_single_task returns a result, a task record has been saved
\* and the success flag of the last saved record is that of the result.
C40_RecordMatchesResult ==
    (pc = "leave" /\ ret # <<>>) =>
        /\ task_details # <<>>
        /\ task_details[1].success = ret[1].success

C40_Witness ==
    /\ pc = "leave" /\ ret # <<>>
    /\ ret[1].error[1] = "Unexpected error: "
    /\ Happened("wait_gate_released")
    /\ task_details # <<>> /\ task_details[1].error = ret[1].error

====
